---- MODULE Spec2Model ----
(***************************************************************************)
(* The raw-query path of the analytics MCP server: validateAndCleanSqlQuery *)
(* (sql-utils.ts, the version driven by settings.FLEXIBLE_QUERY) and the    *)
(* flexible_query handler (get-performance.ts).                             *)
(*                                                                          *)
(* A text is a sequence of characters, each a string; positions are 1-based. *)
(* Every regular expression of the source is an operator that scans the     *)
(* characters the way the JavaScript engine does.  The RegExp objects of    *)
(* FLEXIBLE_QUERY.DANGEROUS_PATTERNS are created once, when the settings    *)
(* module is loaded, and the block-comment pattern carries the g flag, so   *)
(* its lastIndex is state of the process that outlives a call.              *)
(*                                                                          *)
(* The module also holds the input cleaning and the SQL clause builders of  *)
(* sql-utils.ts (SpecUtils) and the handlers of the report tools, which      *)
(* build one SQL text from their arguments and POST it (SpecTools).         *)
(***************************************************************************)
EXTENDS Integers, Sequences, FiniteSets, TLC

VARIABLES
  lastIndex,   \* lastIndex of DANGEROUS_PATTERNS[2], the /g block-comment RegExp
  pc,          \* position of the flexible_query invocation
  query,       \* the handler's argument
  cleanQuery,  \* the handler's local cleanQuery (<<>> until validation returns)
  result,      \* the content block the handler returned
  posts,       \* bodies POSTed to the webhook by this invocation, in order
  log,         \* SpecValidate only: the calls made so far, [text, ok, value, error]
  tool,        \* SpecTools only: the invocation of a report tool (see ToolIdle)
  util,        \* SpecUtils, SpecAnomaly, SpecLayout: the last evaluation, [fn, args, out]
  inflight     \* SpecConcurrent only: the invocations of report tools in flight

vars == <<lastIndex, pc, query, cleanQuery, result, posts, log, tool, util, inflight>>

----------------------------------------------------------------------------
(* Characters *)

Letters ==
  {"a","b","c","d","e","f","g","h","i","j","k","l","m","n","o","p","q","r","s","t","u","v","w",
   "x","y","z","A","B","C","D","E","F","G","H","I","J","K","L","M","N","O","P","Q","R","S","T",
   "U","V","W","X","Y","Z"}

Digits == {"0","1","2","3","4","5","6","7","8","9"}

WordChars == Letters \cup Digits \cup {"_"}

\* \w
IsWord(c) == c \in WordChars

\* \d
IsDigit(c) == c \in Digits

\* \s, and the characters String.prototype.trim removes
IsSpace(c) == c \in {" ", "\t", "\n", "\r", "\f"}

\* the i flag: letters compare by their upper-case form
UpperOf ==
  "a" :> "A" @@ "b" :> "B" @@ "c" :> "C" @@ "d" :> "D" @@ "e" :> "E" @@ "f" :> "F" @@
  "g" :> "G" @@ "h" :> "H" @@ "i" :> "I" @@ "j" :> "J" @@ "k" :> "K" @@ "l" :> "L" @@
  "m" :> "M" @@ "n" :> "N" @@ "o" :> "O" @@ "p" :> "P" @@ "q" :> "Q" @@ "r" :> "R" @@
  "s" :> "S" @@ "t" :> "T" @@ "u" :> "U" @@ "v" :> "V" @@ "w" :> "W" @@ "x" :> "X" @@
  "y" :> "Y" @@ "z" :> "Z"

ToUpper(c) == IF c \in DOMAIN UpperOf THEN UpperOf[c] ELSE c

\* the backtick character (the one character a TLA+ string cannot hold)
BT == "[backtick]"

----------------------------------------------------------------------------
(* Regular-expression primitives.  An "end" is the position after the last  *)
(* matched character; 0 stands for "no match".                              *)

\* s matches the literal w at position i, letter case ignored (w is upper case)
LitAtI(s, i, w) ==
  /\ i >= 1
  /\ i + Len(w) - 1 <= Len(s)
  /\ \A k \in 1..Len(w) : ToUpper(s[i + k - 1]) = w[k]

\* s holds the literal w at position i, case-sensitively
LitAt(s, i, w) ==
  /\ i >= 1
  /\ i + Len(w) - 1 <= Len(s)
  /\ \A k \in 1..Len(w) : s[i + k - 1] = w[k]

\* \b between positions i-1 and i
WordBoundary(s, i) ==
  LET before == i - 1 >= 1 /\ i - 1 <= Len(s) /\ IsWord(s[i - 1])
      after  == i >= 1 /\ i <= Len(s) /\ IsWord(s[i])
  IN before # after

\* the position after the longest run of characters satisfying C that starts at i
RunEnd(s, i, C(_)) ==
  CHOOSE e \in i..(Len(s) + 1) :
    /\ e = Len(s) + 1 \/ ~C(s[e])
    /\ \A k \in i..(e - 1) : C(s[k])

\* the least position in lo..hi satisfying P, or 0
FirstIdx(lo, hi, P(_)) ==
  LET hits == {i \in lo..hi : P(i)}
  IN IF hits = {} THEN 0 ELSE CHOOSE i \in hits : \A j \in hits : i <= j

\* String.prototype.includes
Includes(s, sub) == \E i \in 1..(Len(s) - Len(sub) + 1) : LitAt(s, i, sub)

\* \b(w1|w2|...)\b with the i flag, anywhere in s
HasWholeWordI(s, words) ==
  \E i \in 1..Len(s) :
    /\ WordBoundary(s, i)
    /\ \E w \in words : LitAtI(s, i, w) /\ WordBoundary(s, i + Len(w))

\* String.prototype.trim
Trim(s) ==
  LET a == RunEnd(s, 1, IsSpace)
      b == CHOOSE e \in 0..Len(s) :
             /\ e = 0 \/ ~IsSpace(s[e])
             /\ \A k \in (e + 1)..Len(s) : IsSpace(s[k])
  IN IF a > b THEN <<>> ELSE SubSeq(s, a, b)

----------------------------------------------------------------------------
(* settings.FLEXIBLE_QUERY *)

MAX_QUERY_LENGTH == 10000

DdlDmlWords ==
  {<<"D","R","O","P">>,
   <<"C","R","E","A","T","E">>,
   <<"A","L","T","E","R">>,
   <<"I","N","S","E","R","T">>,
   <<"U","P","D","A","T","E">>,
   <<"D","E","L","E","T","E">>,
   <<"T","R","U","N","C","A","T","E">>}

\* TerminatorKeywordTest without the optional white space
TerminatorKeywordTest_NoWhitespace(s) ==
  \E i \in 1..Len(s) :
    /\ s[i] = ";"
    /\ \E w \in DdlDmlWords : LitAtI(s, i + 1, w)

\* DANGEROUS_PATTERNS[0]: /;\s*(DROP|CREATE|ALTER|INSERT|UPDATE|DELETE|TRUNCATE)/i
\* (\s* must take the whole run of white space: every keyword starts with a letter)
TerminatorKeywordTest(s) ==
  \E i \in 1..Len(s) :
    /\ s[i] = ";"
    /\ \E w \in DdlDmlWords : LitAtI(s, RunEnd(s, i + 1, IsSpace), w)

\* [^\r\n]
NotCrLf(c) == c # "\r" /\ c # "\n"

\* DANGEROUS_PATTERNS[1]: /--[^\r\n]*$/m  ($ with the m flag: the end of the text
\* or the position before a line terminator)
LineCommentTest(s) ==
  \E i \in 1..(Len(s) - 1) :
    /\ s[i] = "-"
    /\ s[i + 1] = "-"
    /\ LET e == RunEnd(s, i + 2, NotCrLf)
       IN e = Len(s) + 1 \/ s[e] \in {"\n", "\r"}

\* "*/" at position j
CommentCloseAt(s, j) == j + 1 <= Len(s) /\ s[j] = "*" /\ s[j + 1] = "/"

\* /\/\*[\s\S]*?\*\// matches at position i
BlockCommentAt(s, i) ==
  /\ i + 1 <= Len(s)
  /\ s[i] = "/"
  /\ s[i + 1] = "*"
  /\ \E j \in (i + 2)..(Len(s) - 1) : CommentCloseAt(s, j)

\* DANGEROUS_PATTERNS[2]: /\/\*[\s\S]*?\*\//g, RegExp.prototype.test on a global
\* RegExp: the search starts at lastIndex (0-based), a match moves lastIndex to
\* its end, a failure sets it to 0.
BlockCommentTest(s, li) ==
  IF li > Len(s)
  THEN [found |-> FALSE, lastIndex |-> 0]
  ELSE LET CommentFrom(i) == BlockCommentAt(s, i)
           i0 == FirstIdx(li + 1, Len(s), CommentFrom)
           CloseFrom(j) == CommentCloseAt(s, j)
       IN IF i0 = 0
          THEN [found |-> FALSE, lastIndex |-> 0]
          ELSE [found |-> TRUE, lastIndex |-> FirstIdx(i0 + 2, Len(s), CloseFrom) + 1]

\* DANGEROUS_PATTERNS[3]: /\bxp_cmdshell\b/i
XpCmdshellTest(s) ==
  HasWholeWordI(s, {<<"X","P","_","C","M","D","S","H","E","L","L">>})

\* DANGEROUS_PATTERNS[4]: /\bsp_executesql\b/i
SpExecutesqlTest(s) ==
  HasWholeWordI(s, {<<"S","P","_","E","X","E","C","U","T","E","S","Q","L">>})

NumPatterns == 5

\* pattern.test(cleaned) for the k-th entry of DANGEROUS_PATTERNS (k from 1)
PatternTest(k, s, li) ==
  CASE k = 1 -> [found |-> TerminatorKeywordTest(s), lastIndex |-> li]
    [] k = 2 -> [found |-> LineCommentTest(s), lastIndex |-> li]
    [] k = 3 -> BlockCommentTest(s, li)
    [] k = 4 -> [found |-> XpCmdshellTest(s), lastIndex |-> li]
    [] k = 5 -> [found |-> SpExecutesqlTest(s), lastIndex |-> li]

\* for (const pattern of dangerousPatterns) if (pattern.test(cleaned)) throw
RECURSIVE ScanPatterns(_, _, _)
ScanPatterns(k, s, li) ==
  IF k > NumPatterns
  THEN [found |-> FALSE, lastIndex |-> li]
  ELSE LET r == PatternTest(k, s, li)
       IN IF r.found THEN r ELSE ScanPatterns(k + 1, s, r.lastIndex)

\* TooLong with the comparison off by one
TooLong_OffByOne(cleaned) == Len(cleaned) >= MAX_QUERY_LENGTH

\* cleaned.length > FLEXIBLE_QUERY.MAX_QUERY_LENGTH
TooLong(cleaned) == Len(cleaned) > MAX_QUERY_LENGTH

ErrTooLong == "Query too long - maximum 10000 characters allowed"
ErrDangerous == "Query contains potentially dangerous SQL patterns"

\* the end of validateAndCleanSqlQuery: r is what the loop over the patterns found
ScanOutcome(cleaned, r) ==
  IF r.found
  THEN [ok |-> FALSE, value |-> <<>>, error |-> ErrDangerous, lastIndex |-> r.lastIndex]
  ELSE [ok |-> TRUE, value |-> cleaned, error |-> "", lastIndex |-> r.lastIndex]

\* validateAndCleanSqlQuery(query), called when the block-comment RegExp's
\* lastIndex is li: the returned text or the thrown message, and the lastIndex
\* the call leaves behind.  (The argument is a z.string(), so the typeof guard
\* never throws.)
validateAndCleanSqlQuery(q, li) ==
  LET cleaned == Trim(q)
  IN IF TooLong(cleaned)
     THEN [ok |-> FALSE, value |-> <<>>, error |-> ErrTooLong, lastIndex |-> li]
     ELSE ScanOutcome(cleaned, ScanPatterns(1, cleaned, li))

----------------------------------------------------------------------------
(* flexible_query: the checks of the handler, get-performance.ts *)

SystemSchemaWords ==
  {<<"I","N","F","O","R","M","A","T","I","O","N","_","S","C","H","E","M","A">>,
   <<"M","Y","S","Q","L">>,
   <<"P","G","_">>,
   <<"S","Y","S",".">>}

FileOperationWords ==
  {<<"L","O","A","D">>,
   <<"O","U","T","F","I","L","E">>,
   <<"D","U","M","P","F","I","L","E">>,
   <<"E","X","P","O","R","T">>}

MsgDdlDml == "DDL/DML operations are not allowed"
MsgSystemSchema == "System schema access is not allowed"
MsgFileOperation == "File operations are not allowed"

\* securityChecks: the three {test, message} pairs, in array order
securityChecks ==
  <<[words |-> DdlDmlWords, message |-> MsgDdlDml],
    [words |-> SystemSchemaWords, message |-> MsgSystemSchema],
    [words |-> FileOperationWords, message |-> MsgFileOperation]>>

\* for (const check of securityChecks) if (check.test.test(cleanQuery)) return:
\* the index of the first check that matches, or 0
FirstSecurityCheck(s) ==
  LET Hit(k) == HasWholeWordI(s, securityChecks[k].words)
  IN FirstIdx(1, Len(securityChecks), Hit)

BLENDED_PLAIN ==
  <<"e","x","e","m","p","l","a","r","y","-","t","e","r","r","a","-","4","6","3","4","0","4","-",
    "m","1",".","l","i","n","k","t","r","e","e","_","a","n","a","l","y","t","i","c","s",".","b",
    "l","e","n","d","e","d","_","s","u","m","m","a","r","y">>

IMPRESSION_PLAIN ==
  <<"e","x","e","m","p","l","a","r","y","-","t","e","r","r","a","-","4","6","3","4","0","4","-",
    "m","1",".","l","i","n","k","t","r","e","e","_","a","n","a","l","y","t","i","c","s",".","i",
    "m","p","r","e","s","s","i","o","n","_","s","h","a","r","e","_","r","e","p","o","r","t">>

\* the handler's authorizedTables array
authorizedTables ==
  <<BLENDED_PLAIN,
    <<BT>> \o BLENDED_PLAIN \o <<BT>>,
    IMPRESSION_PLAIN,
    <<BT>> \o IMPRESSION_PLAIN \o <<BT>>>>

\* authTable.replace(/BT/g, ''), BT the backtick: the name without its backticks
RECURSIVE StripBackticks(_)
StripBackticks(s) ==
  IF s = <<>> THEN <<>>
  ELSE IF Head(s) = BT THEN StripBackticks(Tail(s))
  ELSE <<Head(s)>> \o StripBackticks(Tail(s))

\* [^BT]: any character but the backtick
NotBacktick(c) == c # BT

\* [\w-]
IsNameChar(c) == IsWord(c) \/ c = "-"

\* BT[^BT]+BT at position i: the position after the closing backtick, or 0
QuotedPartEnd(s, i) ==
  IF i >= 1 /\ i <= Len(s) /\ s[i] = BT
  THEN LET e == RunEnd(s, i + 1, NotBacktick)
       IN IF e > i + 1 /\ e <= Len(s) THEN e + 1 ELSE 0
  ELSE 0

\* [\w-]+ at position i (greedy): the position after the run, or 0
NamePartEnd(s, i) ==
  IF i >= 1 /\ i <= Len(s) /\ IsNameChar(s[i])
  THEN RunEnd(s, i, IsNameChar)
  ELSE 0

\* "." at position i, where i is the end of a part that matched
DotAt(s, i) == i # 0 /\ i <= Len(s) /\ s[i] = "."

\* BT[^BT]+BT\.BT[^BT]+BT\.BT[^BT]+BT at position i
QuotedRefEnd(s, i) ==
  LET a == QuotedPartEnd(s, i)
  IN IF ~DotAt(s, a) THEN 0
     ELSE LET b == QuotedPartEnd(s, a + 1)
          IN IF ~DotAt(s, b) THEN 0 ELSE QuotedPartEnd(s, b + 1)

\* [\w-]+\.[\w-]+\.[\w-]+ at position i (a run must stop before the ".", which
\* is no [\w-], so no shorter run can match)
PlainRefEnd(s, i) ==
  LET a == NamePartEnd(s, i)
  IN IF ~DotAt(s, a) THEN 0
     ELSE LET b == NamePartEnd(s, a + 1)
          IN IF ~DotAt(s, b) THEN 0 ELSE NamePartEnd(s, b + 1)

\* (?:BT[^BT]+BT\.BT[^BT]+BT\.BT[^BT]+BT|[\w-]+\.[\w-]+\.[\w-]+) at position i: the first
\* alternative that matches wins
TableRefEnd(s, i) ==
  LET a == QuotedRefEnd(s, i)
  IN IF a # 0 THEN a ELSE PlainRefEnd(s, i)

\* cleanQuery.match(/.../gi) || []: the matches from position p on, leftmost
\* first, each search resuming where the last match ended
RECURSIVE MatchesFrom(_, _)
MatchesFrom(s, p) ==
  LET RefAt(i) == TableRefEnd(s, i) # 0
      i0 == FirstIdx(p, Len(s), RefAt)
  IN IF i0 = 0 THEN <<>>
     ELSE LET e == TableRefEnd(s, i0)
          IN <<SubSeq(s, i0, e - 1)>> \o MatchesFrom(s, e)

tableReferences(s) == MatchesFrom(s, 1)

\* authorizedTables.some(authTable => table.includes(authTable.replace(/BT/g, '')))
IsAuthorizedRef(table) ==
  \E k \in 1..Len(authorizedTables) : Includes(table, StripBackticks(authorizedTables[k]))

\* tableReferences.filter(table => !authorizedTables.some(...))
unauthorizedTables(refs) == SelectSeq(refs, LAMBDA t : ~IsAuthorizedRef(t))

\* hasJoin without the word boundaries
hasJoin_NoWordBoundary(s) == \E i \in 1..Len(s) : LitAtI(s, i, <<"J","O","I","N">>)

\* /\bJOIN\b/i.test(cleanQuery)
hasJoin(s) == HasWholeWordI(s, {<<"J","O","I","N">>})

\* /\bLIMIT\s+\d+\b/i.test(cleanQuery)  (\s+ and \d+ take their whole runs: the
\* character after \s+ must be a digit, and \b does not hold between two digits)
hasLimit(s) ==
  \E i \in 1..Len(s) :
    /\ WordBoundary(s, i)
    /\ LitAtI(s, i, <<"L","I","M","I","T">>)
    /\ LET a == RunEnd(s, i + 5, IsSpace)
           b == RunEnd(s, a, IsDigit)
       IN a > i + 5 /\ b > a /\ WordBoundary(s, b)

\* [*\w]
IsStarOrWord(c) == c = "*" \/ IsWord(c)

\* /\bCOUNT\s*\(\s*[*\w]+\s*\)/i.test(cleanQuery)
hasCount(s) ==
  \E i \in 1..Len(s) :
    /\ WordBoundary(s, i)
    /\ LitAtI(s, i, <<"C","O","U","N","T">>)
    /\ LET a == RunEnd(s, i + 5, IsSpace)
       IN /\ a <= Len(s)
          /\ s[a] = "("
          /\ LET b == RunEnd(s, a + 1, IsSpace)
                 c == RunEnd(s, b, IsStarOrWord)
                 d == RunEnd(s, c, IsSpace)
             IN c > b /\ d <= Len(s) /\ s[d] = ")"

AggregateWords ==
  {<<"S","U","M">>,
   <<"A","V","G">>,
   <<"M","A","X">>,
   <<"M","I","N">>,
   <<"C","O","U","N","T">>}

\* /\b(SUM|AVG|MAX|MIN|COUNT)\s*\(/i.test(cleanQuery)
hasAggregation(s) ==
  \E i \in 1..Len(s) :
    /\ WordBoundary(s, i)
    /\ \E w \in AggregateWords :
         /\ LitAtI(s, i, w)
         /\ LET a == RunEnd(s, i + Len(w), IsSpace)
            IN a <= Len(s) /\ s[a] = "("

\* hasValidTable with every in place of some
hasValidTable_Every(s) == \A k \in 1..Len(authorizedTables) : Includes(s, authorizedTables[k])

\* authorizedTables.some(table => cleanQuery.includes(table))
hasValidTable(s) == \E k \in 1..Len(authorizedTables) : Includes(s, authorizedTables[k])

\* hasJoin && tableReferences.length > 1
JoinRejected(cq, refs) == hasJoin(cq) /\ Len(refs) > 1

\* LimitMissing with the negation of the last test lost
LimitMissing_LostNegation(cq) == ~hasLimit(cq) /\ ~hasCount(cq) /\ hasAggregation(cq)

\* !hasLimit && !hasCount && !hasAggregation
LimitMissing(cq) == ~hasLimit(cq) /\ ~hasCount(cq) /\ ~hasAggregation(cq)

\* The text of a returned content block: its heading, the reason it embeds and
\* the table names it lists.
Content(kind, reason, tables) == [kind |-> kind, reason |-> reason, tables |-> tables]

NoResult == Content("", "", <<>>)

KindInputValidation == "Input Validation Error"
KindSecurity == "Security Error"
KindQueryValidation == "Query Validation Error"
KindTableReference == "Table Reference Error"
KindHttpFailure == "Error: Failed to execute flexible query"
KindResults == "Flexible Query Results"
KindException == "Error executing flexible query"

MsgUnauthorized == "Only the specified analytics tables are allowed"
MsgJoin == "JOINs between different tables are not allowed"
MsgLimit == "Queries must include a LIMIT clause to prevent resource exhaustion."
MsgTableReference == "Query must reference one of the authorized tables"

\* an early return of the handler: the content block c, nothing posted
Return(v, c) ==
  [post |-> FALSE, cleanQuery |-> v.value, result |-> c, lastIndex |-> v.lastIndex]

\* the whitelist test on the extracted references refs and the checks after it,
\* for the validation outcome v
TableChecks(v, refs) ==
  IF Len(unauthorizedTables(refs)) > 0
  THEN Return(v, Content(KindSecurity, MsgUnauthorized, unauthorizedTables(refs)))
  ELSE IF JoinRejected(v.value, refs)
  THEN Return(v, Content(KindSecurity, MsgJoin, <<>>))
  ELSE IF LimitMissing(v.value)
  THEN Return(v, Content(KindQueryValidation, MsgLimit, <<>>))
  ELSE IF ~hasValidTable(v.value)
  THEN Return(v, Content(KindTableReference, MsgTableReference, <<>>))
  ELSE [post |-> TRUE, cleanQuery |-> v.value, result |-> NoResult,
        lastIndex |-> v.lastIndex]

\* the handler after validateAndCleanSqlQuery ended with v (thrown or returned)
AfterValidation(v) ==
  IF ~v.ok
  THEN Return(v, Content(KindInputValidation, v.error, <<>>))
  ELSE LET sec == FirstSecurityCheck(v.value)
       IN IF sec # 0
          THEN Return(v, Content(KindSecurity, securityChecks[sec].message, <<>>))
          ELSE TableChecks(v, tableReferences(v.value))

\* The handler from its first statement to the first await: either a content
\* block is returned (post = FALSE) or fetch is called with cleanQuery as the
\* body's query.  li is the lastIndex found, lastIndex the one left behind.
FlexibleQuerySync(q, li) == AfterValidation(validateAndCleanSqlQuery(q, li))

----------------------------------------------------------------------------
(* The texts the tool is called with: SQL built from the pieces below. *)

MaxPad == 1     \* white space put before and after a text, 0..MaxPad characters
MaxCalls == 3   \* SpecValidate: calls of validateAndCleanSqlQuery in one process

SelectStarFrom == <<"S","E","L","E","C","T"," ","*"," ","F","R","O","M"," ">>
SelectCountFrom ==
  <<"S","E","L","E","C","T"," ","C","O","U","N","T","(","*",")"," ","F","R","O","M"," ">>
HeadBlockComment ==
  <<"/","*"," ","c"," ","*","/"," ","S","E","L","E","C","T"," ","*"," ","F","R","O","M"," ">>
HeadLineComment ==
  <<"-","-"," ","c","\n","S","E","L","E","C","T"," ","*"," ","F","R","O","M"," ">>
HeadSemiDrop ==
  <<"S","E","L","E","C","T"," ","1",";","\n"," ","d","r","o","p"," ","t","a","b","l","e"," ",
    "t",";"," ","S","E","L","E","C","T"," ","*"," ","F","R","O","M"," ">>
HeadSemiDropx ==
  <<"S","E","L","E","C","T"," ","1",";","d","r","o","p","x",";"," ","S","E","L","E","C","T"," ",
    "*"," ","F","R","O","M"," ">>
HeadLoad == <<"S","E","L","E","C","T"," ","l","o","a","d"," ","F","R","O","M"," ">>
HeadSys == <<"S","E","L","E","C","T"," ","s","y","s",".","x"," ","F","R","O","M"," ">>
HeadPg == <<"S","E","L","E","C","T"," ","p","g","_"," ","F","R","O","M"," ">>
HeadXp ==
  <<"S","E","L","E","C","T"," ","x","p","_","c","m","d","s","h","e","l","l"," ","F","R","O","M",
    " ">>
HeadSpExec ==
  <<"S","E","L","E","C","T"," ","s","p","_","e","x","e","c","u","t","e","s","q","l"," ","F","R",
    "O","M"," ">>
HeadUpdated ==
  <<"S","E","L","E","C","T"," ","u","p","d","a","t","e","d"," ","F","R","O","M"," ">>

Backticked(name) == <<BT>> \o name \o <<BT>>

OtherPlain == <<"o","t","h","e","r",".","s","c","h","e","m","a",".","t","a","b","l","e">>
OtherParts ==
  <<BT,"o","t","h","e","r",BT,".",BT,"s","c","h","e","m","a",BT,".",BT,"t","a","b","l","e",
    BT>>
BlendedParts ==
  <<BT,"e","x","e","m","p","l","a","r","y","-","t","e","r","r","a","-","4","6","3","4","0","4",
    "-","m","1",BT,".",BT,"l","i","n","k","t","r","e","e","_","a","n","a","l","y","t","i","c",
    "s",BT,".",BT,"b","l","e","n","d","e","d","_","s","u","m","m","a","r","y",BT>>
Users == <<"u","s","e","r","s">>
DsUsers == <<"d","s",".","u","s","e","r","s">>
BlendedArchive == BLENDED_PLAIN \o <<"_","a","r","c","h","i","v","e">>
MyBlended == <<"m","y","-">> \o BLENDED_PLAIN

\* spellings of the two authorized tables
AuthorizedRefs == {BLENDED_PLAIN, Backticked(BLENDED_PLAIN), BlendedParts, IMPRESSION_PLAIN}

\* spellings of tables that are not the authorized ones: one-part, two-part and
\* three-part names, quoted per part and as a whole, and names that extend an
\* authorized identifier
OtherRefs ==
  {OtherPlain, Backticked(OtherPlain), OtherParts, Users, DsUsers, BlendedArchive, MyBlended}

Refs == AuthorizedRefs \cup OtherRefs

SecondRefs == {BLENDED_PLAIN, IMPRESSION_PLAIN, OtherPlain}

Joiners ==
  {<<",", " ">>,
   <<" ","J","O","I","N"," ">>,
   <<" ","j","o","i","n"," ">>,
   <<" ","J","O","I","N","E","D"," ">>}

Limit5 == <<" ","L","I","M","I","T"," ","5">>
LimitAll == <<" ","L","I","M","I","T"," ","A","L","L">>
TailDelete ==
  <<" ","W","H","E","R","E"," ","o","p"," ","="," ","d","e","l","e","t","e"," ","L","I","M","I",
    "T"," ","5">>
TailLineComment == <<" ","L","I","M","I","T"," ","5"," ","-","-"," ","a","l","l">>
TailBlockComment == <<" ","L","I","M","I","T"," ","5"," ","/","*"," ","x"," ","*","/">>
TailDrop == <<" ","L","I","M","I","T"," ","5",";","\t","D","r","o","p"," ","t">>

\* queries over one table reference, with and without a LIMIT, and over two
TableQueries ==
  {h \o r \o t : h \in {SelectStarFrom, SelectCountFrom}, r \in Refs, t \in {<<>>, Limit5}}
  \cup
  {SelectStarFrom \o r \o j \o r2 \o Limit5 : r \in Refs, j \in Joiners, r2 \in SecondRefs}

\* queries that carry comments, statement terminators and reserved words
GuardedQueries ==
  {h \o r \o Limit5 :
     h \in {HeadBlockComment, HeadLineComment, HeadSemiDrop, HeadSemiDropx, HeadLoad, HeadSys,
            HeadPg, HeadXp, HeadSpExec, HeadUpdated},
     r \in {BLENDED_PLAIN, OtherPlain}}
  \cup
  {SelectStarFrom \o r \o t :
     r \in {Backticked(BLENDED_PLAIN), OtherPlain},
     t \in {LimitAll, TailDelete, TailLineComment, TailBlockComment, TailDrop}}

Pad(n) == [i \in 1..n |-> " "]

WhereIn == <<" ","W","H","E","R","E"," ","a"," ","I","N"," ","(">>
CloseLimit == <<")"," ","L","I","M","I","T"," ","5">>

\* a query of exactly n characters
LongQuery(n) ==
  LET head == SelectStarFrom \o Backticked(BLENDED_PLAIN) \o WhereIn
  IN head \o [i \in 1..(n - Len(head) - Len(CloseLimit)) |-> ","] \o CloseLimit

\* texts at the length limit and around it, a plain query and the empty text,
\* each with 0..MaxPad characters of white space on either side
PaddedQueries ==
  {Pad(a) \o c \o Pad(b) :
     a \in 0..MaxPad, b \in 0..MaxPad,
     c \in {LongQuery(MAX_QUERY_LENGTH), LongQuery(MAX_QUERY_LENGTH + 1),
            SelectStarFrom \o BLENDED_PLAIN \o Limit5, <<>>}}

Queries == TableQueries \cup GuardedQueries \cup PaddedQueries

\* the texts of SpecValidate
ValidateTexts ==
  {<<"/","*"," ","a"," ","*","/"," ","S","E","L","E","C","T"," ","1">>,
   <<"S","E","L","E","C","T"," ","1"," ","/","*"," ","b"," ","*","/">>,
   <<"S","E","L","E","C","T"," ","1">>,
   <<"/","*","*","/"," ","/","*"," ","d"," ","*","/">>,
   <<";"," ","d","r","o","p"," ","x">>,
   <<" ","S","E","L","E","C","T"," ","2","\n">>}

Statuses == {200, 500}
Bodies == {"[]", "[{\"spend\": 1}]"}

----------------------------------------------------------------------------
(* JavaScript values handed to the tools: a value carries its type t, the  *)
(* way typeof and Array.isArray see it, and holds the characters of a      *)
(* string in s, the elements of a list in a, a number (or 1 for true) in n. *)

JsString(chars) == [t |-> "string", s |-> chars, a |-> <<>>, n |-> 0]
JsArray(items) == [t |-> "array", s |-> <<>>, a |-> items, n |-> 0]
JsNumber(n) == [t |-> "number", s |-> <<>>, a |-> <<>>, n |-> n]
JsBoolean(b) == [t |-> "boolean", s |-> <<>>, a |-> <<>>, n |-> IF b THEN 1 ELSE 0]
undefined == [t |-> "undefined", s |-> <<>>, a |-> <<>>, n |-> 0]

\* the lesser and the greater of two numbers: Math.min, Math.max
Min(a, b) == IF a <= b THEN a ELSE b
Max(a, b) == IF a >= b THEN a ELSE b

DigitChars == <<"0","1","2","3","4","5","6","7","8","9">>

RECURSIVE NatToText(_)
NatToText(n) ==
  IF n < 10 THEN <<DigitChars[n + 1]>>
  ELSE NatToText(n \div 10) \o <<DigitChars[(n % 10) + 1]>>

\* an integer interpolated into a template literal: String(n)
NumToText(n) == IF n < 0 THEN <<"-">> \o NatToText(0 - n) ELSE NatToText(n)

\* Array.prototype.join over texts
RECURSIVE Join(_, _)
Join(parts, sep) ==
  IF Len(parts) = 0 THEN <<>>
  ELSE IF Len(parts) = 1 THEN parts[1]
  ELSE parts[1] \o sep \o Join(Tail(parts), sep)

\* String.prototype.replace(/c/g, rep) for a one-character pattern
RECURSIVE ReplaceAll(_, _, _)
ReplaceAll(s, c, rep) ==
  IF Len(s) = 0 THEN <<>>
  ELSE (IF Head(s) = c THEN rep ELSE <<Head(s)>>) \o ReplaceAll(Tail(s), c, rep)

----------------------------------------------------------------------------
(* sql-utils.ts *)

BACKSLASH == "\\"
QUOTE == "'"

\* the replace chain with the backslash replaced last
escapeLikeValue_BackslashLast(value) ==
  ReplaceAll(ReplaceAll(ReplaceAll(ReplaceAll(value,
      QUOTE, <<BACKSLASH, QUOTE>>),
      "%", <<BACKSLASH, "%">>),
      "_", <<BACKSLASH, "_">>),
      BACKSLASH, <<BACKSLASH, BACKSLASH>>)

escapeLikeValue(value) ==
  ReplaceAll(ReplaceAll(ReplaceAll(ReplaceAll(value,
      BACKSLASH, <<BACKSLASH, BACKSLASH>>),
      QUOTE, <<BACKSLASH, QUOTE>>),
      "%", <<BACKSLASH, "%">>),
      "_", <<BACKSLASH, "_">>)

\* !values || values.length === 0
EmptyList(values) == values.t = "undefined" \/ (values.t = "array" /\ Len(values.a) = 0)

OneEqualsZero == <<"1","=","0">>

\* name => LOWER(campaign) LIKE LOWER('%<escaped>%')
LikeCondition(name) ==
  <<"L","O","W","E","R","(","c","a","m","p","a","i","g","n",")"," ","L","I","K","E"," ",
    "L","O","W","E","R","(","'","%">>
  \o escapeLikeValue(Trim(name.s)) \o <<"%","'",")">>

createCampaignMatchConditions(campaignNames) ==
  IF EmptyList(campaignNames) THEN OneEqualsZero
  ELSE <<"(">>
       \o Join([i \in 1..Len(campaignNames.a) |-> LikeCondition(campaignNames.a[i])],
               <<" ","O","R"," ">>)
       \o <<")">>

\* val => '<val with every quote escaped>'
QuotedValue(val) == <<QUOTE>> \o ReplaceAll(val.s, QUOTE, <<BACKSLASH, QUOTE>>) \o <<QUOTE>>

\* values.map(...): the literals of the list, in order
escapedValues(values) == [i \in 1..Len(values.a) |-> QuotedValue(values.a[i])]

createInClause(values, columnName) ==
  IF EmptyList(values) THEN OneEqualsZero
  ELSE columnName \o <<" ","I","N"," ","(">>
       \o Join(escapedValues(values), <<",", " ">>) \o <<")">>

\* alias ? alias + "." : ""
tableRef(alias) == IF Len(alias) = 0 THEN <<>> ELSE alias \o <<".">>

DateSubOpen ==
  <<"D","A","T","E","_","S","U","B","(","C","U","R","R","E","N","T","_","D","A","T","E","(",")",
    ","," ","I","N","T","E","R","V","A","L"," ">>
DateSubClose == <<" ","D","A","Y",")">>

\* <ref>date <op> DATE_SUB(CURRENT_DATE(), INTERVAL <days> DAY)
DateComparison(ref, op, days) ==
  ref \o <<"d","a","t","e"," ">> \o op \o <<" ">> \o DateSubOpen \o NumToText(days)
  \o DateSubClose

buildDateFilter(days, alias) == DateComparison(tableRef(alias), <<">","=">>, days)

\* the upper bound written with <= instead of <
buildComparisonDateFilter_Inclusive(currentDays, totalDays, alias) ==
  DateComparison(tableRef(alias), <<">","=">>, totalDays) \o <<" ","A","N","D"," ">>
  \o DateComparison(tableRef(alias), <<"<","=">>, currentDays)

buildComparisonDateFilter(currentDays, totalDays, alias) ==
  DateComparison(tableRef(alias), <<">","=">>, totalDays) \o <<" ","A","N","D"," ">>
  \o DateComparison(tableRef(alias), <<"<">>, currentDays)

MaxStringLength == 200
MaxListLength == 20

\* substring before trim
CleanString_CutFirst(s) == Trim(SubSeq(s, 1, Min(Len(s), MaxStringLength)))

\* input.trim().substring(0, 200)
CleanString(s) == SubSeq(Trim(s), 1, Min(Len(Trim(s)), MaxStringLength))

RECURSIVE validateAndCleanInput(_)
validateAndCleanInput(input) ==
  IF input.t = "string" THEN JsString(CleanString(input.s))
  ELSE IF input.t = "array"
       THEN JsArray([i \in 1..Min(Len(input.a), MaxListLength) |->
                       validateAndCleanInput(input.a[i])])
       ELSE input

\* settings: PERFORMANCE_THRESHOLDS (CPA, in dollars)
PERFORMANCE_THRESHOLDS == [EXCELLENT |-> 25, GOOD |-> 40, ACCEPTABLE |-> 60]

Excellent == <<"E","X","C","E","L","L","E","N","T">>
Good == <<"G","O","O","D">>
Acceptable == <<"A","C","C","E","P","T","A","B","L","E">>
NeedsAttention == <<"N","E","E","D","S","_","A","T","T","E","N","T","I","O","N">>

\* WHEN <column> <op> <bound> THEN '<label>'
WhenThen(column, op, bound, label) ==
  <<"W","H","E","N"," ">> \o column \o <<" ">> \o op \o <<" ">> \o bound
  \o <<" ","T","H","E","N"," ","'">> \o label \o <<"'">>

\* CASE <branches> ELSE '<label>' END, one branch per line, indented by indent
CaseText(branches, label, indent, endIndent) ==
  <<"C","A","S","E","\n">> \o indent
  \o Join(branches, <<"\n">> \o indent)
  \o <<"\n">> \o indent \o <<"E","L","S","E"," ","'">> \o label \o <<"'","\n">>
  \o endIndent \o <<"E","N","D">>

\* the comparisons with < in place of <=
getPerformanceRatingCase_Strict(cpaColumn) ==
  CaseText(<<WhenThen(cpaColumn, <<"<">>, NumToText(PERFORMANCE_THRESHOLDS.EXCELLENT), Excellent),
             WhenThen(cpaColumn, <<"<">>, NumToText(PERFORMANCE_THRESHOLDS.GOOD), Good),
             WhenThen(cpaColumn, <<"<">>, NumToText(PERFORMANCE_THRESHOLDS.ACCEPTABLE), Acceptable)>>,
           NeedsAttention, <<"\t","\t">>, <<"\t">>)

getPerformanceRatingCase(cpaColumn) ==
  CaseText(<<WhenThen(cpaColumn, <<"<","=">>, NumToText(PERFORMANCE_THRESHOLDS.EXCELLENT), Excellent),
             WhenThen(cpaColumn, <<"<","=">>, NumToText(PERFORMANCE_THRESHOLDS.GOOD), Good),
             WhenThen(cpaColumn, <<"<","=">>, NumToText(PERFORMANCE_THRESHOLDS.ACCEPTABLE), Acceptable)>>,
           NeedsAttention, <<"\t","\t">>, <<"\t">>)

\* creative_analysis, concept_summary: the CPA of a concept
ConceptCpa ==
  <<"S","A","F","E","_","D","I","V","I","D","E","(","S","U","M","(","t","o","t","a","l","_",
    "s","p","e","n","d",")",","," ","N","U","L","L","I","F","(","S","U","M","(","t","o","t",
    "a","l","_","c","o","n","v","e","r","s","i","o","n","s",")",","," ","0",")",")">>

\* creative_analysis, concept_summary: the classification written out in the query
performance_tier ==
  CaseText(<<WhenThen(ConceptCpa, <<"<","=">>, <<"2","5">>, Excellent),
             WhenThen(ConceptCpa, <<"<","=">>, <<"4","0">>, Good),
             WhenThen(ConceptCpa, <<"<","=">>, <<"6","0">>, Acceptable)>>,
           NeedsAttention, <<" "," "," "," "," "," ">>, <<" "," "," "," ">>)

----------------------------------------------------------------------------
(* Arguments of the sql-utils functions *)

MaxDays == 14

\* n copies of the character c
Repeat(c, n) == [i \in 1..n |-> c]

\* the list C1, C2, ..., Cn of country codes
CountryCodes(n) == JsArray([i \in 1..n |-> JsString(<<"C">> \o NatToText(i))])

EscapeTexts ==
  {<<>>,
   <<"U","S">>,
   <<"\\">>,
   <<"'">>,
   <<"%">>,
   <<"_">>,
   <<"\\","'">>,
   <<"a","\\">>,
   <<"a","'","b">>,
   <<"5","0","%","_","x">>,
   <<"\\","\\">>,
   <<"\\","%">>,
   <<"o","'","r","\\","_">>,
   <<"'",";"," ","-","-">>,
   <<"A","U"," ","L","a","u","n","c","h">>,
   <<"\\","\\","'">>}

NameLists ==
  {undefined,
   JsArray(<<>>),
   JsArray(<<JsString(<<"P","o","d","c","a","s","t">>)>>),
   JsArray(<<JsString(<<" ","A","U"," ","L","a","u","n","c","h"," ">>)>>),
   JsArray(<<JsString(<<"a","'","b">>), JsString(<<"c","\\">>)>>),
   JsArray(<<JsString(<<"%">>)>>),
   JsArray(<<JsString(<<"\\","'">>)>>),
   JsArray(<<JsString(<<>>)>>),
   JsArray(<<JsString(<<"P","o","d","c","a","s","t">>), JsString(<<" ","\t"," ">>)>>),
   JsArray(<<JsString(<<"5","0","%","_","x">>), JsString(<<"U","S">>), JsString(<<"o","'","r">>)>>),
   JsArray(<<JsString(<<"a","\\">>), JsString(<<"b">>)>>)}

InLists ==
  {undefined,
   JsArray(<<>>),
   JsArray(<<JsString(<<"U","S">>)>>),
   JsArray(<<JsString(<<"U","S">>), JsString(<<"A","U">>), JsString(<<"U","K">>)>>),
   JsArray(<<JsString(<<"o","'","r">>)>>),
   JsArray(<<JsString(<<"a","\\">>)>>),
   JsArray(<<JsString(<<"\\","'">>)>>),
   JsArray(<<JsString(<<"a">>), JsString(<<"b","\\">>), JsString(<<"c">>)>>),
   JsArray(<<JsString(<<"M","e","t","a">>), JsString(<<"G","o","o","g","l","e">>)>>),
   JsArray(<<JsString(<<>>)>>),
   JsArray(<<JsString(<<"a","'">>), JsString(<<"'","b">>)>>),
   JsArray(<<JsString(<<"x","'",","," ","'","y">>)>>)}

Columns ==
  {<<"c","o","u","n","t","r","y">>,
   <<"p","l","a","t","f","o","r","m">>}

CleanInputs ==
  {JsString(<<>>),
   JsString(<<" ","U","S"," ">>),
   JsString(<<"U","S">>),
   JsString(<<"\t"," ","a"," ","b"," ","\n">>),
   JsString(<<" "," "," ">>),
   JsString(Repeat("a", MaxStringLength)),
   JsString(Repeat("a", MaxStringLength + 1)),
   JsString(<<" ">> \o Repeat("a", MaxStringLength) \o <<"b">>),
   JsString(Repeat("a", MaxStringLength - 1) \o <<" ", "b">>),
   JsString(Repeat(" ", MaxStringLength) \o <<"b">>),
   JsArray(<<>>),
   JsArray(<<JsString(<<"U","S">>)>>),
   JsArray(<<JsString(<<" ","U","S"," ">>), JsString(<<"A","U">>)>>),
   CountryCodes(MaxListLength - 1),
   CountryCodes(MaxListLength),
   CountryCodes(MaxListLength + 1),
   CountryCodes(MaxListLength + 5),
   JsArray(<<JsArray(<<JsString(<<" ","a"," ">>)>>), JsString(<<"b"," ">>)>>),
   JsArray(<<JsNumber(7), JsString(<<" ","x">>), undefined>>),
   JsArray(<<CountryCodes(MaxListLength + 2), JsString(Repeat("b", MaxStringLength + 3))>>),
   JsNumber(5),
   JsNumber(0 - 1),
   JsBoolean(TRUE),
   undefined}

\* the default column, the column the report tools pass, and the concept CPA
CpaColumns ==
  {<<"c","p","a">>,
   <<"c","p",".","c","p","a","_","c","u","r","r","e","n","t">>,
   ConceptCpa}

Aliases ==
  {<<>>,
   <<"b","d">>,
   <<"c">>}

----------------------------------------------------------------------------
(* The report tools.  A handler builds one SQL text and POSTs it; the model  *)
(* keeps of that text every place where a value derived from a caller       *)
(* parameter is interpolated: the parameter, the value interpolated, the    *)
(* characters emitted for it and the source line of the interpolation.      *)

\* no sql-utils function has been called
NoCall == [fn |-> "", args |-> <<>>, out |-> <<>>]

\* the parameters a caller can pass to the report tools
NoArgs ==
  [platforms |-> undefined, countries |-> undefined, campaign_names |-> undefined,
   regions |-> undefined, min_impact_threshold |-> undefined, min_spend |-> undefined,
   min_spend_threshold |-> undefined]

\* JSON.stringify of a string and of a list of strings
JsonString(s) ==
  <<"\"">>
  \o ReplaceAll(ReplaceAll(ReplaceAll(s, BACKSLASH, <<BACKSLASH, BACKSLASH>>),
                           "\"", <<BACKSLASH, "\"">>),
                "\n", <<BACKSLASH, "n">>)
  \o <<"\"">>
JsonStringify(list) ==
  <<"[">> \o Join([i \in 1..Len(list.a) |-> JsonString(list.a[i].s)], <<",">>) \o <<"]">>

\* ARRAY[${list.map(p => `'${p.replace(/'/g, "\\'")}'`).join(', ')}]
ArrayLiteral(list) ==
  <<"A","R","R","A","Y","[">> \o Join(escapedValues(list), <<",", " ">>) \o <<"]">>

Slot(param, value, text, line) ==
  [param |-> param, value |-> value, text |-> text, line |-> line]
InSlot(param, clean, columnName, line) ==
  Slot(param, clean, createInClause(clean, columnName), line)
ArraySlot(param, clean, line) == Slot(param, clean, ArrayLiteral(clean), line)
JsonSlot(param, raw, line) == Slot(param, raw, JsonStringify(raw), line)
NumberSlot(param, n, line) == Slot(param, JsNumber(n), NumToText(n), line)

PlatformColumn == <<"p","l","a","t","f","o","r","m">>
CountryColumn == <<"c","o","u","n","t","r","y">>
RegionColumn == <<"r","e","g","i","o","n">>

\* the bounds applied in the wrong order
safeMinImpact_Swapped(min_impact_threshold) == Min(100, Max(min_impact_threshold, 50000))

\* anomaly-detection.ts: Math.max(100, Math.min(min_impact_threshold, 50000))
safeMinImpact(min_impact_threshold) == Max(100, Min(min_impact_threshold, 50000))

\* impression_share_analysis: Math.max(100, Math.min(min_spend_threshold, 10000))
safeMinSpend(min_spend_threshold) == Max(100, Min(min_spend_threshold, 10000))

\* weekly-report.ts, the module index.ts registers
WeeklyReportQuery(platforms, countries) ==
  <<JsonSlot("platforms", platforms, 33), JsonSlot("countries", countries, 34)>>

\* registerWeeklyReportTool as written on top of sql-utils (creative-analysis.ts:264)
WeeklyReportCleanQuery(cleanPlatforms, cleanCountries) ==
  <<InSlot("platforms", cleanPlatforms, PlatformColumn, 316),
    InSlot("countries", cleanCountries, CountryColumn, 317),
    ArraySlot("platforms", cleanPlatforms, 421),
    ArraySlot("countries", cleanCountries, 422)>>

CampaignAnalysisQuery(cleanCampaignNames) ==
  <<Slot("campaign_names", cleanCampaignNames,
         createCampaignMatchConditions(cleanCampaignNames), 66),
    ArraySlot("campaign_names", cleanCampaignNames, 168)>>

CreativeAnalysisQuery(countries, min_spend) ==
  <<JsonSlot("countries", countries, 35), NumberSlot("min_spend", min_spend, 36)>>

RegionalComparisonQuery(cleanPlatforms) ==
  <<InSlot("platforms", cleanPlatforms, PlatformColumn, 72),
    InSlot("platforms", cleanPlatforms, PlatformColumn, 90),
    ArraySlot("platforms", cleanPlatforms, 169)>>

AnomalyDetectionQuery(cleanPlatforms, cleanCountries, safe) ==
  <<InSlot("platforms", cleanPlatforms, PlatformColumn, 88),
    InSlot("countries", cleanCountries, CountryColumn, 89),
    InSlot("platforms", cleanPlatforms, PlatformColumn, 111),
    InSlot("countries", cleanCountries, CountryColumn, 112),
    NumberSlot("min_impact_threshold", safe, 199),
    NumberSlot("min_impact_threshold", safe, 258),
    ArraySlot("platforms", cleanPlatforms, 278),
    ArraySlot("countries", cleanCountries, 279),
    NumberSlot("min_impact_threshold", safe, 280)>>

ImpressionShareQuery(cleanRegions, safe) ==
  <<InSlot("regions", cleanRegions, RegionColumn, 126),
    NumberSlot("min_spend_threshold", safe, 133),
    NumberSlot("min_spend_threshold", safe * 2, 182),
    ArraySlot("regions", cleanRegions, 268),
    NumberSlot("min_spend_threshold", safe, 270)>>

WeeklyReport == "weekly_performance_report"
WeeklyReportClean == "weekly_performance_report (creative-analysis.ts:264)"
CampaignAnalysis == "campaign_analysis"
CreativeAnalysis == "creative_analysis"
RegionalComparison == "regional_comparison"
AnomalyDetection == "anomaly_detection"
ImpressionShare == "impression_share_analysis"

\* the query the handler of the tool builds from its arguments
ToolQuery(name, args) ==
  CASE name = WeeklyReport -> WeeklyReportQuery(args.platforms, args.countries)
    [] name = WeeklyReportClean ->
         WeeklyReportCleanQuery(validateAndCleanInput(args.platforms),
                                validateAndCleanInput(args.countries))
    [] name = CampaignAnalysis ->
         CampaignAnalysisQuery(validateAndCleanInput(args.campaign_names))
    [] name = CreativeAnalysis -> CreativeAnalysisQuery(args.countries, args.min_spend.n)
    [] name = RegionalComparison ->
         RegionalComparisonQuery(validateAndCleanInput(args.platforms))
    [] name = AnomalyDetection ->
         AnomalyDetectionQuery(validateAndCleanInput(args.platforms),
                               validateAndCleanInput(args.countries),
                               safeMinImpact(args.min_impact_threshold.n))
    [] name = ImpressionShare ->
         ImpressionShareQuery(validateAndCleanInput(args.regions),
                              safeMinSpend(args.min_spend_threshold.n))

\* the content block a handler returns: { content: [{ type: "text", text }] }
ToolContent(kind, detail) == [type |-> "text", kind |-> kind, detail |-> detail]
NoToolResult == [type |-> "", kind |-> "", detail |-> ""]

\* no report tool is running
ToolIdle ==
  [name |-> "", args |-> NoArgs, pc |-> "idle", query |-> <<>>, posts |-> <<>>,
   result |-> NoToolResult]

\* the handler as it starts: the query is built and POSTed
Started(name, args, q) ==
  [name |-> name, args |-> args, pc |-> "fetching", query |-> q,
   posts |-> <<[query |-> q]>>, result |-> NoToolResult]

\* a failed request is sent again
NotOk_Retry(t, st) ==
  IF Len(t.posts) < 2
  THEN [t EXCEPT !.posts = Append(@, [query |-> t.query])]
  ELSE [t EXCEPT !.pc = "returned", !.result = ToolContent("http failure", ToString(st))]

\* if (!response.ok) return the error text
NotOk(t, st) ==
  [t EXCEPT !.pc = "returned", !.result = ToolContent("http failure", ToString(st))]

\* the error leaves the handler
Caught_Rethrown(t, message) == [t EXCEPT !.pc = "rejected"]

\* catch (error): return the error text
Caught(t, message) ==
  [t EXCEPT !.pc = "returned", !.result = ToolContent("caught", message)]

----------------------------------------------------------------------------
(* Arguments of the report tools *)

PlatformLists ==
  {JsArray(<<JsString(<<"M","e","t","a">>), JsString(<<"G","o","o","g","l","e">>), JsString(<<"B","i","n","g">>)>>),
   JsArray(<<JsString(<<"M","e","t","a">>)>>)}

CountryLists ==
  {JsArray(<<JsString(<<"U","S">>), JsString(<<"A","U">>), JsString(<<"U","K">>)>>),
   JsArray(<<JsString(<<" ","U","S"," ">>)>>),
   JsArray(<<JsString(<<"a","\\">>)>>),
   JsArray(<<JsString(<<"o","'","r">>)>>),
   JsArray(<<>>),
   CountryCodes(MaxListLength + 5)}

Thresholds == {0 - 5, 99, 100, 101, 1000, 10000, 10001, 50000, 50001, 99999}

ToolCalls ==
  {[name |-> n, args |-> [NoArgs EXCEPT !.platforms = p, !.countries = c]] :
     n \in {WeeklyReport, WeeklyReportClean}, p \in PlatformLists, c \in CountryLists}
  \cup
  {[name |-> CampaignAnalysis, args |-> [NoArgs EXCEPT !.campaign_names = c]] :
     c \in NameLists \ {undefined}}
  \cup
  {[name |-> CreativeAnalysis,
    args |-> [NoArgs EXCEPT !.countries = c, !.min_spend = JsNumber(x)]] :
     c \in CountryLists, x \in Thresholds}
  \cup
  {[name |-> RegionalComparison, args |-> [NoArgs EXCEPT !.platforms = p]] :
     p \in PlatformLists}
  \cup
  {[name |-> AnomalyDetection,
    args |-> [NoArgs EXCEPT !.platforms = p, !.countries = c,
                            !.min_impact_threshold = JsNumber(x)]] :
     p \in PlatformLists, c \in CountryLists, x \in Thresholds}
  \cup
  {[name |-> ImpressionShare,
    args |-> [NoArgs EXCEPT !.regions = c, !.min_spend_threshold = JsNumber(x)]] :
     c \in CountryLists, x \in Thresholds}

----------------------------------------------------------------------------
(* anomaly_detection: what its query computes for one campaign.  Column values *)
(* are whole numbers (spend, CPA and excess cost in dollars, rates in basis    *)
(* points) or NULL; a change is an exact fraction num/den or NULL; thresholds  *)
(* are held in percent.                                                        *)

NULL == [null |-> TRUE, v |-> 0]
Value(x) == [null |-> FALSE, v |-> x]
NullChange == [null |-> TRUE, num |-> 0, den |-> 1]

\* settings: PLATFORM_TARGETS (CPA, in dollars)
PLATFORM_TARGETS == [Meta |-> 50, Google |-> 25, Bing |-> 25, TikTok |-> 50, Default |-> 40]

\* settings: ANOMALY_DETECTION.SENSITIVITY_LEVELS with low as loose as high on volume
SENSITIVITY_LEVELS_LowVolume ==
  [high   |-> [change_threshold |-> 15, min_spend |-> 300, min_conversions |-> 3],
   medium |-> [change_threshold |-> 25, min_spend |-> 500, min_conversions |-> 5],
   low    |-> [change_threshold |-> 50, min_spend |-> 300, min_conversions |-> 3]]

\* settings: ANOMALY_DETECTION.SENSITIVITY_LEVELS (change_threshold 0.15, 0.25, 0.5)
SENSITIVITY_LEVELS ==
  [high   |-> [change_threshold |-> 15, min_spend |-> 300, min_conversions |-> 3],
   medium |-> [change_threshold |-> 25, min_spend |-> 500, min_conversions |-> 5],
   low    |-> [change_threshold |-> 50, min_spend |-> 1000, min_conversions |-> 8]]

MIN_EXCESS_COST == 500
MAX_CAMPAIGN_ANOMALIES == 15
MAX_REGIONAL_ANOMALIES == 10

\* CASE cp.platform WHEN 'Meta' ... WHEN 'Google' ... WHEN 'Bing' ... ELSE Default
target_cpa(platform) ==
  IF platform = "Meta" THEN PLATFORM_TARGETS.Meta
  ELSE IF platform = "Google" THEN PLATFORM_TARGETS.Google
  ELSE IF platform = "Bing" THEN PLATFORM_TARGETS.Bing
  ELSE PLATFORM_TARGETS.Default

\* CASE WHEN comp IS NOT NULL AND comp > 0 THEN (cur - comp) / comp ELSE NULL END
change_pct(cur, comp) ==
  IF ~comp.null /\ comp.v > 0
  THEN IF cur.null THEN NullChange
       ELSE [null |-> FALSE, num |-> cur.v - comp.v, den |-> comp.v]
  ELSE NullChange

\* the brackets compared the other way round: LOW before MEDIUM before HIGH
confidence_level_LowFirst(config, cp) ==
  IF cp.spend_current >= config.min_spend
     /\ cp.conversions_current >= config.min_conversions THEN "LOW"
  ELSE IF cp.spend_current >= config.min_spend * 2
          /\ cp.conversions_current >= config.min_conversions * 2 THEN "MEDIUM"
  ELSE IF cp.spend_current >= config.min_spend * 4
          /\ cp.conversions_current >= config.min_conversions * 3 THEN "HIGH"
  ELSE "INSUFFICIENT"

confidence_level(config, cp) ==
  IF cp.spend_current >= config.min_spend * 4
     /\ cp.conversions_current >= config.min_conversions * 3 THEN "HIGH"
  ELSE IF cp.spend_current >= config.min_spend * 2
          /\ cp.conversions_current >= config.min_conversions * 2 THEN "MEDIUM"
  ELSE IF cp.spend_current >= config.min_spend
          /\ cp.conversions_current >= config.min_conversions THEN "LOW"
  ELSE "INSUFFICIENT"

\* CASE WHEN cpa_current > target THEN (cpa_current - target) * conversions ELSE 0
excess_cost(cp) ==
  IF ~cp.cpa_current.null /\ cp.cpa_current.v > target_cpa(cp.platform)
  THEN (cp.cpa_current.v - target_cpa(cp.platform)) * cp.conversions_current
  ELSE 0

\* the row of campaign_anomalies for the joined row cp (comparison columns NULL
\* when the LEFT JOIN finds no comparison row)
campaign_anomalies(config, cp) ==
  [platform |-> cp.platform,
   spend_current |-> cp.spend_current,
   conversions_current |-> cp.conversions_current,
   cpa_change_pct |-> change_pct(cp.cpa_current, cp.cpa_comparison),
   ctr_change_pct |-> change_pct(cp.ctr_current, cp.ctr_comparison),
   cvr_change_pct |-> change_pct(cp.cvr_current, cp.cvr_comparison),
   spend_change_pct |-> change_pct(Value(cp.spend_current), cp.spend_comparison),
   confidence_level |-> confidence_level(config, cp),
   excess_cost |-> excess_cost(cp)]

\* ABS(COALESCE(change, 0)) >= percent / 100
AbsAtLeast(change, percent) ==
  IF change.null THEN 0 >= percent
  ELSE 100 * (IF change.num < 0 THEN 0 - change.num ELSE change.num) >= percent * change.den

\* the spend change held to the same threshold as the others
Significant_SpendSingle(config, row) ==
  /\ row.confidence_level # "INSUFFICIENT"
  /\ \/ AbsAtLeast(row.cpa_change_pct, config.change_threshold)
     \/ AbsAtLeast(row.ctr_change_pct, config.change_threshold)
     \/ AbsAtLeast(row.cvr_change_pct, config.change_threshold)
     \/ AbsAtLeast(row.spend_change_pct, config.change_threshold)
     \/ row.excess_cost >= MIN_EXCESS_COST

\* the WHERE clause of significant_campaign_anomalies
Significant(config, row) ==
  /\ row.confidence_level # "INSUFFICIENT"
  /\ \/ AbsAtLeast(row.cpa_change_pct, config.change_threshold)
     \/ AbsAtLeast(row.ctr_change_pct, config.change_threshold)
     \/ AbsAtLeast(row.cvr_change_pct, config.change_threshold)
     \/ AbsAtLeast(row.spend_change_pct, config.change_threshold * 2)
     \/ row.excess_cost >= MIN_EXCESS_COST

\* the label tested against a looser excess floor than the filter
anomaly_type_Unlabelled(config, row) ==
  IF AbsAtLeast(row.cpa_change_pct, config.change_threshold) THEN "CPA_SHIFT"
  ELSE IF AbsAtLeast(row.ctr_change_pct, config.change_threshold) THEN "CTR_SHIFT"
  ELSE IF AbsAtLeast(row.cvr_change_pct, config.change_threshold) THEN "CVR_SHIFT"
  ELSE IF AbsAtLeast(row.spend_change_pct, config.change_threshold * 2) THEN "SPEND_SHIFT"
  ELSE IF row.excess_cost >= MIN_EXCESS_COST * 2 THEN "COST_OVERRUN"
  ELSE "MULTIPLE_SIGNALS"

\* CAMPAIGN_ANOMALIES: the anomaly_type CASE
anomaly_type(config, row) ==
  IF AbsAtLeast(row.cpa_change_pct, config.change_threshold) THEN "CPA_SHIFT"
  ELSE IF AbsAtLeast(row.ctr_change_pct, config.change_threshold) THEN "CTR_SHIFT"
  ELSE IF AbsAtLeast(row.cvr_change_pct, config.change_threshold) THEN "CVR_SHIFT"
  ELSE IF AbsAtLeast(row.spend_change_pct, config.change_threshold * 2) THEN "SPEND_SHIFT"
  ELSE IF row.excess_cost >= MIN_EXCESS_COST THEN "COST_OVERRUN"
  ELSE "MULTIPLE_SIGNALS"

\* what the query does with one joined row: whether campaign_anomalies keeps it
\* (WHERE cp.spend_current >= safeMinImpact), its columns there, whether
\* significant_campaign_anomalies keeps it, and the label it then gets
CampaignOutcome(config, safe, cp, row) ==
  [kept |-> cp.spend_current >= safe,
   row |-> row,
   significant |-> cp.spend_current >= safe /\ Significant(config, row),
   anomaly_type |-> IF cp.spend_current >= safe /\ Significant(config, row)
                    THEN anomaly_type(config, row) ELSE ""]

Sensitivities == {"high", "medium", "low"}
MinImpacts == {100, 1000}

\* the joined rows of current_period and comparison_period the query runs over:
\* every combination of the column values below
PlatformNames == <<"Google", "TikTok">>
SpendsCurrent == <<299, 300, 599, 600, 1000, 1200, 1999, 2000, 4000>>
ConversionsCurrent == <<2, 3, 5, 8, 9, 10, 15, 16, 23, 24>>
\* (current, comparison) of CPA: no comparison, comparison 0, no change, +14%,
\* +15%, +25%, -50%, no current value, and two CPAs far above every target
CpaPairs ==
  <<<<Value(20), NULL>>, <<Value(20), Value(0)>>, <<Value(100), Value(100)>>,
    <<Value(114), Value(100)>>, <<Value(23), Value(20)>>, <<Value(25), Value(20)>>,
    <<Value(10), Value(20)>>, <<NULL, Value(20)>>, <<Value(90), NULL>>,
    <<Value(75), Value(75)>>>>
CtrPairs == <<<<Value(100), Value(100)>>, <<Value(76), Value(100)>>>>
CvrPairs == <<<<Value(100), NULL>>, <<Value(85), Value(100)>>>>
SpendsComparison == <<NULL, Value(1000), Value(0)>>

\* the element of seq that row number i takes when seq varies with the given stride
Pick(seq, i, stride) == seq[(((i - 1) \div stride) % Len(seq)) + 1]

CpaStride == Len(SpendsComparison) * Len(CvrPairs) * Len(CtrPairs)
ConversionsStride == CpaStride * Len(CpaPairs)
SpendStride == ConversionsStride * Len(ConversionsCurrent)
PlatformStride == SpendStride * Len(SpendsCurrent)
NumRows == PlatformStride * Len(PlatformNames)

RowAt(i) ==
  [platform |-> Pick(PlatformNames, i, PlatformStride),
   spend_current |-> Pick(SpendsCurrent, i, SpendStride),
   conversions_current |-> Pick(ConversionsCurrent, i, ConversionsStride),
   cpa_current |-> Pick(CpaPairs, i, CpaStride)[1],
   cpa_comparison |-> Pick(CpaPairs, i, CpaStride)[2],
   ctr_current |-> Pick(CtrPairs, i, Len(SpendsComparison) * Len(CvrPairs))[1],
   ctr_comparison |-> Pick(CtrPairs, i, Len(SpendsComparison) * Len(CvrPairs))[2],
   cvr_current |-> Pick(CvrPairs, i, Len(SpendsComparison))[1],
   cvr_comparison |-> Pick(CvrPairs, i, Len(SpendsComparison))[2],
   spend_comparison |-> Pick(SpendsComparison, i, 1)]

----------------------------------------------------------------------------
(* The layout of the report queries: the WITH list, the references to its    *)
(* stages, the LIMITs and the sections of the final UNION ALL, in the order  *)
(* of the template, each with its line.  A conditional part of a template is *)
(* present or absent as the template's condition decides.                    *)

Token(k, name, as, n, line) == <<[k |-> k, name |-> name, as |-> as, n |-> n, line |-> line]>>

With(line) == Token("WITH", "", "", 0, line)
\* <name> AS (
Stage(name, line) == Token("STAGE", name, "", 0, line)
\* the parenthesis that closes a stage
EndStage(line) == Token("END", "", "", 0, line)
Comma(line) == Token(",", "", "", 0, line)
\* FROM <stage> <alias>, JOIN <stage> <alias>
From(name, as, line) == Token("FROM", name, as, 0, line)
JoinStage(name, as, line) == Token("JOIN", name, as, 0, line)
\* FROM or JOIN of the blended_summary table
Table(as, line) == Token("TABLE", "", as, 0, line)
\* a column written <alias>.<column>
Column(as, line) == Token("COLUMN", "", as, 0, line)
Limit(n, line) == Token("LIMIT", "", "", n, line)
\* SELECT '<section>' as section
Select(section, line) == Token("SELECT", section, "", 0, line)
ArrayAgg(line) == Token("ARRAY_AGG", "", "", 0, line)
UnionAll(line) == Token("UNION ALL", "", "", 0, line)
OrderBySection(line) == Token("ORDER BY section", "", "", 0, line)
\* (SELECT ... FROM <stage>) and (SELECT ... FROM <stage> ORDER BY ... LIMIT n)
Scalar(name, line) ==
  Token("(", "", "", 0, line) \o From(name, "", line) \o Token(")", "", "", 0, line)
ScalarLimit(name, n, line) ==
  Token("(", "", "", 0, line) \o From(name, "", line) \o Limit(n, line)
  \o Token(")", "", "", 0, line)
\* an interpolated number, an interpolated text
Number(n, line) == Token("NUMBER", "", "", n, line)
Text(s, line) == Token("TEXT", s, "", 0, line)

\* settings: DATE_RANGES, COMPARISON_PERIODS
DATE_RANGES == [r \in {"7d", "14d", "30d"} |-> IF r = "7d" THEN 7 ELSE IF r = "14d" THEN 14 ELSE 30]
COMPARISON_PERIODS ==
  [week_over_week |-> [current |-> 7, comparison |-> 14],
   month_over_month |-> [current |-> 30, comparison |-> 60]]

\* date_range === "7d" ? "7" : date_range === "14d" ? "14" : "30"
DaysOf(date_range) == IF date_range = "7d" THEN 7 ELSE IF date_range = "14d" THEN 14 ELSE 30

\* the three target CPAs read from config
ConfigTargets(line) == Scalar("config", line) \o Scalar("config", line + 1) \o Scalar("config", line + 2)

\* weekly-report.ts
WeeklyReportLayout(date_range) ==
  With(29)
  \o Stage("config", 30) \o Number(DaysOf(date_range), 32) \o EndStage(43) \o Comma(43)
  \o Stage("base_data", 45) \o Table("", 52)
     \o Scalar("config", 54) \o Scalar("config", 55) \o Scalar("config", 56)
     \o Scalar("config", 60) \o Scalar("config", 61) \o EndStage(62) \o Comma(62)
  \o Stage("platform_summary", 64) \o ConfigTargets(68) \o From("base_data", "", 76)
     \o EndStage(78) \o Comma(78)
  \o Stage("regional_summary", 80) \o From("base_data", "", 87) \o EndStage(89) \o Comma(89)
  \o Stage("performance_issues", 91) \o ConfigTargets(97) \o From("base_data", "bd", 102)
     \o ConfigTargets(104) \o Limit(5, 109) \o EndStage(110) \o Comma(110)
  \o Stage("opportunities", 112) \o ConfigTargets(118) \o From("base_data", "bd", 129)
     \o ConfigTargets(131) \o Limit(5, 136) \o EndStage(137)
  \o Select("PLATFORM_OVERVIEW", 141)
     \o Scalar("config", 143) \o Scalar("config", 144) \o Scalar("config", 145)
     \o ArrayAgg(146) \o From("platform_summary", "", 156)
  \o UnionAll(158)
  \o Select("REGIONAL_OVERVIEW", 161) \o ArrayAgg(163) \o From("regional_summary", "", 171)
  \o UnionAll(173)
  \o Select("TOP_ISSUES", 176) \o ArrayAgg(178) \o From("performance_issues", "", 186)
  \o UnionAll(188)
  \o Select("SCALE_OPPORTUNITIES", 191) \o ArrayAgg(193) \o From("opportunities", "", 202)
  \o OrderBySection(204)

\* campaign-analysis.ts
CampaignAnalysisLayout(comparison_period, include_creatives) ==
  With(55)
  \o Stage("campaign_matches", 57) \o Table("", 63) \o EndStage(68) \o Comma(68)
  \o Stage("current_period_data", 71) \o Column("cm", 73) \o Column("bd", 77)
     \o From("campaign_matches", "cm", 82) \o Table("bd", 83) \o EndStage(86) \o Comma(86)
  \o Stage("comparison_period_data", 89) \o Column("cm", 91) \o Column("bd", 92)
     \o From("campaign_matches", "cm", 97) \o Table("bd", 98) \o EndStage(101) \o Comma(101)
  \o Stage("campaign_performance", 104) \o Column("cp", 106) \o Column("comp", 107)
     \o From("current_period_data", "cp", 130) \o JoinStage("comparison_period_data", "comp", 131)
     \o EndStage(132) \o Comma(132)
  \o Stage("top_performers_filtered", 135) \o From("campaign_performance", "", 137)
     \o Limit(10, 141) \o EndStage(142)
  \o (IF include_creatives
      THEN Comma(142)
           \o Stage("creative_filtered", 145) \o Column("bd", 147)
           \o From("campaign_matches", "cm", 152) \o Table("bd", 153) \o Column("cm", 153)
           \o Limit(10, 160) \o EndStage(161)
      ELSE <<>>)
  \o Select("EXECUTIVE_SUMMARY", 165) \o Text(comparison_period, 167)
     \o Number(COMPARISON_PERIODS[comparison_period].current, 169)
     \o From("campaign_performance", "", 187)
  \o UnionAll(189)
  \o Select("PROBLEM_CAMPAIGNS", 193) \o ArrayAgg(195) \o From("campaign_performance", "", 209)
  \o UnionAll(213)
  \o Select("TOP_PERFORMERS", 217) \o ArrayAgg(219) \o From("top_performers_filtered", "", 231)
  \o (IF include_creatives
      THEN UnionAll(234)
           \o Select("CREATIVE_ANALYSIS", 238) \o ArrayAgg(241)
           \o From("creative_filtered", "", 254)
      ELSE <<>>)
  \o OrderBySection(257)

\* creative-analysis.ts, creative_analysis
CreativeAnalysisLayout(date_range, min_spend, sort_by) ==
  With(31)
  \o Stage("config", 32) \o Number(DaysOf(date_range), 34) \o Number(min_spend, 36)
     \o Text(sort_by, 37) \o EndStage(38) \o Comma(38)
  \o Stage("creative_data", 40) \o Column("bd", 42) \o Table("bd", 66)
     \o Scalar("config", 68) \o Scalar("config", 70) \o Scalar("config", 75)
     \o EndStage(77) \o Comma(77)
  \o Stage("concept_summary", 79) \o From("creative_data", "", 95) \o Scalar("config", 98)
     \o EndStage(99) \o Comma(99)
  \o Stage("top_performers", 101) \o Text(sort_by, 116) \o From("creative_data", "", 122)
     \o Limit(10, 124) \o EndStage(125) \o Comma(125)
  \o Stage("performance_distribution", 127) \o From("concept_summary", "", 133)
     \o EndStage(135)
  \o Select("CREATIVE_OVERVIEW", 139)
     \o Scalar("config", 141) \o Scalar("config", 142) \o Scalar("config", 143)
     \o Scalar("config", 144) \o Scalar("creative_data", 145) \o Scalar("concept_summary", 146)
     \o ArrayAgg(147) \o From("performance_distribution", "", 154)
  \o UnionAll(156)
  \o Select("TOP_CONCEPTS", 159) \o ArrayAgg(161) \o From("concept_summary", "", 172)
     \o Limit(8, 174)
  \o UnionAll(176)
  \o Select("TOP_INDIVIDUAL_ADS", 179) \o ArrayAgg(181) \o From("top_performers", "", 195)
  \o OrderBySection(197)

\* regional-comparison.ts with the join of previous_period written whatever
\* include_trends is
RegionalComparisonLayout_JoinAlways(comparison_type, date_range, include_trends) ==
  With(57)
  \o Stage("current_period", 59) \o Table("", 69) \o EndStage(75) \o Comma(75)
  \o (IF include_trends
      THEN Stage("previous_period", 79) \o Table("", 87) \o EndStage(93) \o Comma(93)
      ELSE <<>>)
  \o Stage("regional_performance", 97) \o Column("cp", 99)
     \o (IF include_trends THEN Column("pp", 107) ELSE <<>>)
     \o From("current_period", "cp", 121)
     \o JoinStage("previous_period", "pp", 122) \o Column("cp", 123) \o Column("pp", 123)
     \o Column("cp", 126) \o EndStage(127) \o Comma(127)
  \o Stage("country_summary", 130) \o From("regional_performance", "", 143)
     \o EndStage(146) \o Comma(146)
  \o Stage("platform_country_summary", 149) \o From("regional_performance", "", 159)
     \o EndStage(162)
  \o Select("COUNTRY_COMPARISON", 166) \o Text(comparison_type, 168) \o Text(date_range, 170)
     \o Number(DATE_RANGES[date_range], 170)
     \o Text(IF include_trends THEN "true" ELSE "false", 171)
     \o ArrayAgg(172) \o From("country_summary", "", 186) \o Text(comparison_type, 187)
  \o UnionAll(189)
  \o Select("PLATFORM_BY_COUNTRY", 193) \o ArrayAgg(196)
     \o From("platform_country_summary", "", 207) \o Text(comparison_type, 208)
  \o UnionAll(210)
  \o Select("REGIONAL_INSIGHTS", 214)
     \o ScalarLimit("country_summary", 1, 217) \o ScalarLimit("country_summary", 1, 218)
     \o Text(IF include_trends THEN "true" ELSE "false", 220)
     \o ScalarLimit("country_summary", 1, 221)
     \o ArrayAgg(224) \o From("country_summary", "", 230)
  \o OrderBySection(232)

\* regional-comparison.ts
RegionalComparisonLayout(comparison_type, date_range, include_trends) ==
  With(57)
  \o Stage("current_period", 59) \o Table("", 69) \o EndStage(75) \o Comma(75)
  \o (IF include_trends
      THEN Stage("previous_period", 79) \o Table("", 87) \o EndStage(93) \o Comma(93)
      ELSE <<>>)
  \o Stage("regional_performance", 97) \o Column("cp", 99)
     \o (IF include_trends THEN Column("pp", 107) ELSE <<>>)
     \o From("current_period", "cp", 121)
     \o (IF include_trends
         THEN JoinStage("previous_period", "pp", 122) \o Column("cp", 123) \o Column("pp", 123)
         ELSE <<>>)
     \o Column("cp", 126) \o EndStage(127) \o Comma(127)
  \o Stage("country_summary", 130) \o From("regional_performance", "", 143)
     \o EndStage(146) \o Comma(146)
  \o Stage("platform_country_summary", 149) \o From("regional_performance", "", 159)
     \o EndStage(162)
  \o Select("COUNTRY_COMPARISON", 166) \o Text(comparison_type, 168) \o Text(date_range, 170)
     \o Number(DATE_RANGES[date_range], 170)
     \o Text(IF include_trends THEN "true" ELSE "false", 171)
     \o ArrayAgg(172) \o From("country_summary", "", 186) \o Text(comparison_type, 187)
  \o UnionAll(189)
  \o Select("PLATFORM_BY_COUNTRY", 193) \o ArrayAgg(196)
     \o From("platform_country_summary", "", 207) \o Text(comparison_type, 208)
  \o UnionAll(210)
  \o Select("REGIONAL_INSIGHTS", 214)
     \o ScalarLimit("country_summary", 1, 217) \o ScalarLimit("country_summary", 1, 218)
     \o Text(IF include_trends THEN "true" ELSE "false", 220)
     \o ScalarLimit("country_summary", 1, 221)
     \o ArrayAgg(224) \o From("country_summary", "", 230)
  \o OrderBySection(232)

\* anomaly-detection.ts
AnomalyDetectionLayout(sensitivity, safe) ==
  With(70)
  \o Stage("current_period", 72) \o Table("", 85) \o EndStage(92) \o Comma(92)
  \o Stage("comparison_period", 95) \o Table("", 108) \o EndStage(115) \o Comma(115)
  \o Stage("campaign_anomalies", 118) \o Column("cp", 120) \o Column("comp", 130)
     \o Number(SENSITIVITY_LEVELS[sensitivity].min_spend * 4, 171)
     \o Number(SENSITIVITY_LEVELS[sensitivity].min_conversions * 3, 171)
     \o From("current_period", "cp", 194) \o JoinStage("comparison_period", "comp", 195)
     \o Column("cp", 196) \o Column("comp", 196) \o Number(safe, 199)
     \o EndStage(200) \o Comma(200)
  \o Stage("regional_anomalies", 203) \o From("campaign_anomalies", "", 230)
     \o EndStage(233) \o Comma(233)
  \o Stage("significant_campaign_anomalies", 236) \o From("campaign_anomalies", "", 238)
     \o Number(SENSITIVITY_LEVELS[sensitivity].change_threshold, 241)
     \o Number(MIN_EXCESS_COST, 245)
     \o Limit(MAX_CAMPAIGN_ANOMALIES, 252) \o EndStage(253) \o Comma(253)
  \o Stage("significant_regional_anomalies", 255) \o From("regional_anomalies", "", 257)
     \o Number(safe, 258) \o Limit(MAX_REGIONAL_ANOMALIES, 269) \o EndStage(270)
  \o Select("ANOMALY_SUMMARY", 274) \o Text(sensitivity, 276) \o Number(safe, 280)
     \o Scalar("significant_campaign_anomalies", 281)
     \o Scalar("significant_regional_anomalies", 282)
     \o Scalar("significant_campaign_anomalies", 283)
  \o UnionAll(286)
  \o Select("CAMPAIGN_ANOMALIES", 290) \o ArrayAgg(292)
     \o From("significant_campaign_anomalies", "", 323)
  \o UnionAll(325)
  \o Select("REGIONAL_ANOMALIES", 329) \o ArrayAgg(331)
     \o From("significant_regional_anomalies", "", 357)
  \o OrderBySection(359)

\* the parameters of one call that decide the layout
LayoutCall(name, flag, choice, range, number) ==
  [name |-> name, flag |-> flag, choice |-> choice, range |-> range, number |-> number]

\* the layout of the query the handler of the tool assembles
QueryLayout(call) ==
  CASE call.name = WeeklyReport -> WeeklyReportLayout(call.range)
    [] call.name = CampaignAnalysis -> CampaignAnalysisLayout(call.choice, call.flag)
    [] call.name = CreativeAnalysis ->
         CreativeAnalysisLayout(call.range, call.number, call.choice)
    [] call.name = RegionalComparison ->
         RegionalComparisonLayout(call.choice, call.range, call.flag)
    [] call.name = AnomalyDetection ->
         AnomalyDetectionLayout(call.choice, safeMinImpact(call.number))

DateRanges == {"7d", "14d", "30d"}

LayoutCalls ==
  {LayoutCall(WeeklyReport, FALSE, "", r, 0) : r \in DateRanges}
  \cup {LayoutCall(CampaignAnalysis, f, c, "", 0) :
          f \in BOOLEAN, c \in {"week_over_week", "month_over_month"}}
  \cup {LayoutCall(CreativeAnalysis, FALSE, c, r, x) :
          c \in {"cpa", "spend", "conversions"}, r \in DateRanges, x \in Thresholds}
  \cup {LayoutCall(RegionalComparison, f, c, r, 0) :
          f \in BOOLEAN, c \in {"country", "platform_by_country"}, r \in DateRanges}
  \cup {LayoutCall(AnomalyDetection, FALSE, c, "", x) : c \in Sensitivities, x \in Thresholds}

----------------------------------------------------------------------------
(* The template tools with several invocations in flight.  Each invocation   *)
(* has the parameters and the consts of its own handler call; the handlers   *)
(* share no variable.                                                        *)

\* an enum member or a flag as it is rendered into the report
JsEnum(e) == [t |-> "string", s |-> <<e>>, a |-> <<>>, n |-> 0]

\* the parameters of one call: the lists and numbers in args, the flag and the
\* enum parameters of the tool
ConcurrentCall(name, args, flag, choice, range) ==
  [name |-> name, args |-> args, flag |-> flag, choice |-> choice, range |-> range]

\* the values the handler renders into the lines above "Results:"
ReportHeader(c) ==
  CASE c.name = WeeklyReport ->
         <<JsEnum(c.range), c.args.platforms, c.args.countries>>
    [] c.name = CampaignAnalysis ->
         <<JsEnum(c.choice), validateAndCleanInput(c.args.campaign_names), JsBoolean(c.flag)>>
    [] c.name = RegionalComparison ->
         <<validateAndCleanInput(c.args.platforms), JsEnum(c.choice), JsEnum(c.range),
           JsBoolean(c.flag)>>
    [] c.name = AnomalyDetection ->
         <<JsEnum(c.choice), JsNumber(SENSITIVITY_LEVELS[c.choice].change_threshold),
           validateAndCleanInput(c.args.platforms), validateAndCleanInput(c.args.countries),
           JsNumber(safeMinImpact(c.args.min_impact_threshold.n))>>

\* the parameters held in one variable that every invocation writes when it starts
Locals_Shared(calls, i) == calls[Len(calls)].call

\* the parameters and consts of invocation i: those of its own call of the handler
Locals(calls, i) == calls[i].call

\* invocation i returns its report
Reported(calls, i, data) ==
  [calls EXCEPT ![i] = [call |-> calls[i].call,
                        h |-> [calls[i].h EXCEPT !.pc = "returned",
                                                 !.result = ToolContent("report", data)],
                        header |-> ReportHeader(Locals(calls, i))]]

\* invocation i moves on to h, no report written
Moved(calls, i, h) == [calls EXCEPT ![i] = [call |-> calls[i].call, h |-> h, header |-> <<>>]]

\* the invocations in flight without invocation i
Without(calls, i) == SubSeq(calls, 1, i - 1) \o SubSeq(calls, i + 1, Len(calls))

MaxInFlight == 2

Meta == JsArray(<<JsString(<<"M","e","t","a">>)>>)
GoogleBing == JsArray(<<JsString(<<"G","o","o","g","l","e">>), JsString(<<" ","B","i","n","g">>)>>)
US == JsArray(<<JsString(<<"U","S">>)>>)
AU == JsArray(<<JsString(<<" ","A","U"," ">>)>>)

ConcurrentCalls ==
  {ConcurrentCall(AnomalyDetection,
                  [NoArgs EXCEPT !.platforms = Meta, !.countries = US,
                                 !.min_impact_threshold = JsNumber(1000)],
                  FALSE, "high", ""),
   ConcurrentCall(AnomalyDetection,
                  [NoArgs EXCEPT !.platforms = GoogleBing, !.countries = AU,
                                 !.min_impact_threshold = JsNumber(99999)],
                  FALSE, "low", ""),
   ConcurrentCall(RegionalComparison, [NoArgs EXCEPT !.platforms = Meta],
                  TRUE, "country", "7d"),
   ConcurrentCall(RegionalComparison, [NoArgs EXCEPT !.platforms = GoogleBing],
                  FALSE, "platform_by_country", "30d"),
   ConcurrentCall(WeeklyReport, [NoArgs EXCEPT !.platforms = GoogleBing, !.countries = AU],
                  FALSE, "", "14d"),
   ConcurrentCall(CampaignAnalysis,
                  [NoArgs EXCEPT !.campaign_names = JsArray(<<JsString(<<" ","A","U"," ">>)>>)],
                  TRUE, "week_over_week", "")}

----------------------------------------------------------------------------
(* The flexible_query handler as a process: one invocation at a time. *)

Init ==
  /\ lastIndex = 0
  /\ pc = "idle"
  /\ query = <<>>
  /\ cleanQuery = <<>>
  /\ result = NoResult
  /\ posts = <<>>
  /\ log = <<>>
  /\ tool = ToolIdle
  /\ util = NoCall
  /\ inflight = <<>>

\* the tool is called with q: the handler runs to its first await or return
Invoke(q) ==
  /\ pc = "idle"
  /\ \E r \in {FlexibleQuerySync(q, lastIndex)} :
       /\ lastIndex' = r.lastIndex
       /\ query' = q
       /\ cleanQuery' = r.cleanQuery
       /\ result' = r.result
       /\ pc' = IF r.post THEN "fetching" ELSE "returned"
       /\ posts' = IF r.post
                   THEN <<[query |-> r.cleanQuery, validation_passed |-> TRUE]>>
                   ELSE <<>>
  /\ UNCHANGED <<log, tool, util, inflight>>

\* fetch resolves with a response of status st
FetchResolves(st) ==
  /\ pc = "fetching"
  /\ IF st \in 200..299
     THEN pc' = "reading" /\ UNCHANGED result
     ELSE pc' = "returned" /\ result' = Content(KindHttpFailure, ToString(st), <<>>)
  /\ UNCHANGED <<lastIndex, query, cleanQuery, posts, log, tool, util, inflight>>

\* fetch rejects (network failure): the outer catch returns
FetchRejects ==
  /\ pc = "fetching"
  /\ pc' = "returned"
  /\ result' = Content(KindException, "fetch failed", <<>>)
  /\ UNCHANGED <<lastIndex, query, cleanQuery, posts, log, tool, util, inflight>>

\* response.text() resolves with data
TextResolves(data) ==
  /\ pc = "reading"
  /\ pc' = "returned"
  /\ result' = Content(KindResults, data, <<>>)
  /\ UNCHANGED <<lastIndex, query, cleanQuery, posts, log, tool, util, inflight>>

\* response.text() rejects: the outer catch returns
TextRejects ==
  /\ pc = "reading"
  /\ pc' = "returned"
  /\ result' = Content(KindException, "body unusable", <<>>)
  /\ UNCHANGED <<lastIndex, query, cleanQuery, posts, log, tool, util, inflight>>

\* the invocation is over: its locals are gone, the process stays
Finish ==
  /\ pc = "returned"
  /\ pc' = "idle"
  /\ query' = <<>>
  /\ cleanQuery' = <<>>
  /\ result' = NoResult
  /\ posts' = <<>>
  /\ UNCHANGED <<lastIndex, log, tool, util, inflight>>

Next ==
  \/ \E q \in Queries : Invoke(q)
  \/ \E st \in Statuses : FetchResolves(st)
  \/ FetchRejects
  \/ \E data \in Bodies : TextResolves(data)
  \/ TextRejects
  \/ Finish

Spec == Init /\ [][Next]_vars

----------------------------------------------------------------------------
(* validateAndCleanSqlQuery called MaxCalls times in one process. *)

ValidateCall(t) ==
  /\ Len(log) < MaxCalls
  /\ \E v \in {validateAndCleanSqlQuery(t, lastIndex)} :
       /\ lastIndex' = v.lastIndex
       /\ log' = Append(log, [text |-> t, ok |-> v.ok, value |-> v.value,
                              error |-> v.error])
  /\ UNCHANGED <<pc, query, cleanQuery, result, posts, tool, util, inflight>>

NextValidate == \E t \in ValidateTexts : ValidateCall(t)

SpecValidate == Init /\ [][NextValidate]_vars

----------------------------------------------------------------------------
(* The sql-utils functions called one at a time: util holds the last call. *)

CallEscapeLikeValue(value) ==
  /\ util' = [fn |-> "escapeLikeValue", args |-> <<value>>, out |-> escapeLikeValue(value)]
  /\ UNCHANGED <<lastIndex, pc, query, cleanQuery, result, posts, log, tool, inflight>>

CallCreateCampaignMatchConditions(campaignNames) ==
  /\ util' = [fn |-> "createCampaignMatchConditions", args |-> <<campaignNames>>,
              out |-> createCampaignMatchConditions(campaignNames)]
  /\ UNCHANGED <<lastIndex, pc, query, cleanQuery, result, posts, log, tool, inflight>>

CallCreateInClause(values, columnName) ==
  /\ util' = [fn |-> "createInClause", args |-> <<values, columnName>>,
              out |-> createInClause(values, columnName)]
  /\ UNCHANGED <<lastIndex, pc, query, cleanQuery, result, posts, log, tool, inflight>>

CallValidateAndCleanInput(input) ==
  /\ util' = [fn |-> "validateAndCleanInput", args |-> <<input>>,
              out |-> validateAndCleanInput(input)]
  /\ UNCHANGED <<lastIndex, pc, query, cleanQuery, result, posts, log, tool, inflight>>

\* the two date filters of one report, built from the same currentDays
CallBuildDateFilters(currentDays, totalDays, alias) ==
  /\ util' = [fn |-> "buildDateFilters", args |-> <<currentDays, totalDays, alias>>,
              out |-> [current |-> buildDateFilter(currentDays, alias),
                       comparison |-> buildComparisonDateFilter(currentDays, totalDays, alias)]]
  /\ UNCHANGED <<lastIndex, pc, query, cleanQuery, result, posts, log, tool, inflight>>

\* the CASE as the report tools and creative_analysis use it
CallGetPerformanceRatingCase(cpaColumn) ==
  /\ util' = [fn |-> "getPerformanceRatingCase", args |-> <<cpaColumn>>,
              out |-> getPerformanceRatingCase(cpaColumn)]
  /\ UNCHANGED <<lastIndex, pc, query, cleanQuery, result, posts, log, tool, inflight>>

NextUtils ==
  \/ \E value \in EscapeTexts : CallEscapeLikeValue(value)
  \/ \E campaignNames \in NameLists : CallCreateCampaignMatchConditions(campaignNames)
  \/ \E values \in InLists, columnName \in Columns : CallCreateInClause(values, columnName)
  \/ \E input \in CleanInputs : CallValidateAndCleanInput(input)
  \/ \E totalDays \in 1..MaxDays, currentDays \in 1..MaxDays, alias \in Aliases :
       currentDays <= totalDays /\ CallBuildDateFilters(currentDays, totalDays, alias)
  \/ \E cpaColumn \in CpaColumns : CallGetPerformanceRatingCase(cpaColumn)

SpecUtils == Init /\ [][NextUtils]_vars

----------------------------------------------------------------------------
(* The anomaly_detection query of one invocation, run over the joined rows   *)
(* one at a time: util holds the row last evaluated.                         *)

\* row number i of the join goes through campaign_anomalies and the filter of
\* significant_campaign_anomalies
EvaluateCampaign(sensitivity, min_impact_threshold, i) ==
  /\ \E row \in {campaign_anomalies(SENSITIVITY_LEVELS[sensitivity], RowAt(i))} :
       util' = [fn |-> "campaign_anomalies",
                args |-> <<sensitivity, min_impact_threshold, RowAt(i), i>>,
                out |-> CampaignOutcome(SENSITIVITY_LEVELS[sensitivity],
                                        safeMinImpact(min_impact_threshold), RowAt(i), row)]
  /\ UNCHANGED <<lastIndex, pc, query, cleanQuery, result, posts, log, tool, inflight>>

NextAnomaly ==
  \/ /\ util.fn # "campaign_anomalies"
     /\ \E sensitivity \in Sensitivities, min_impact_threshold \in MinImpacts :
          EvaluateCampaign(sensitivity, min_impact_threshold, 1)
  \/ /\ util.fn = "campaign_anomalies"
     /\ util.args[4] < NumRows
     /\ EvaluateCampaign(util.args[1], util.args[2], util.args[4] + 1)

SpecAnomaly == Init /\ [][NextAnomaly]_vars

----------------------------------------------------------------------------
(* The report tools assembling their queries, one call at a time. *)

AssembleQuery(call) ==
  /\ util' = [fn |-> "query", args |-> <<call>>, out |-> QueryLayout(call)]
  /\ UNCHANGED <<lastIndex, pc, query, cleanQuery, result, posts, log, tool, inflight>>

NextLayout == \E call \in LayoutCalls : AssembleQuery(call)

SpecLayout == Init /\ [][NextLayout]_vars

----------------------------------------------------------------------------
(* The tools of the server, one invocation at a time: the report tools and,  *)
(* through the actions of Spec, flexible_query.                             *)

\* a report tool is called: the handler runs to its first await
ToolInvoke(name, args) ==
  /\ pc = "idle"
  /\ tool.pc = "idle"
  /\ \E q \in {ToolQuery(name, args)} : tool' = Started(name, args, q)
  /\ UNCHANGED <<lastIndex, pc, query, cleanQuery, result, posts, log, util, inflight>>

\* fetch resolves with a response of status st
ToolFetchResolves(st) ==
  /\ tool.pc = "fetching"
  /\ tool' = IF st \in 200..299 THEN [tool EXCEPT !.pc = "reading"] ELSE NotOk(tool, st)
  /\ UNCHANGED <<lastIndex, pc, query, cleanQuery, result, posts, log, util, inflight>>

\* fetch rejects (network failure): the catch block returns
ToolFetchRejects ==
  /\ tool.pc = "fetching"
  /\ tool' = Caught(tool, "fetch failed")
  /\ UNCHANGED <<lastIndex, pc, query, cleanQuery, result, posts, log, util, inflight>>

\* response.text() resolves with data
ToolTextResolves(data) ==
  /\ tool.pc = "reading"
  /\ tool' = [tool EXCEPT !.pc = "returned", !.result = ToolContent("report", data)]
  /\ UNCHANGED <<lastIndex, pc, query, cleanQuery, result, posts, log, util, inflight>>

\* response.text() rejects: the catch block returns
ToolTextRejects ==
  /\ tool.pc = "reading"
  /\ tool' = Caught(tool, "body unusable")
  /\ UNCHANGED <<lastIndex, pc, query, cleanQuery, result, posts, log, util, inflight>>

\* the invocation is over
ToolFinish ==
  /\ tool.pc = "returned"
  /\ tool' = ToolIdle
  /\ UNCHANGED <<lastIndex, pc, query, cleanQuery, result, posts, log, util, inflight>>

NextTools ==
  \/ \E c \in ToolCalls : ToolInvoke(c.name, c.args)
  \/ \E st \in Statuses : ToolFetchResolves(st)
  \/ ToolFetchRejects
  \/ \E data \in Bodies : ToolTextResolves(data)
  \/ ToolTextRejects
  \/ ToolFinish
  \/ (tool.pc = "idle" /\ Next)

SpecTools == Init /\ [][NextTools]_vars

----------------------------------------------------------------------------
(* Several invocations of the template tools, interleaved at their awaits. *)

\* a tool is called while others are in flight: the handler runs to its first await
ConcInvoke(c) ==
  /\ Len(inflight) < MaxInFlight
  /\ \E q \in {ToolQuery(c.name, c.args)} :
       inflight' = Append(inflight, [call |-> c, h |-> Started(c.name, c.args, q),
                                     header |-> <<>>])
  /\ UNCHANGED <<lastIndex, pc, query, cleanQuery, result, posts, log, tool, util>>

\* the fetch of invocation i resolves with a response of status st
ConcFetchResolves(i, st) ==
  /\ inflight[i].h.pc = "fetching"
  /\ inflight' = Moved(inflight, i, IF st \in 200..299
                                    THEN [inflight[i].h EXCEPT !.pc = "reading"]
                                    ELSE NotOk(inflight[i].h, st))
  /\ UNCHANGED <<lastIndex, pc, query, cleanQuery, result, posts, log, tool, util>>

\* the fetch of invocation i rejects
ConcFetchRejects(i) ==
  /\ inflight[i].h.pc = "fetching"
  /\ inflight' = Moved(inflight, i, Caught(inflight[i].h, "fetch failed"))
  /\ UNCHANGED <<lastIndex, pc, query, cleanQuery, result, posts, log, tool, util>>

\* response.text() of invocation i resolves with data
ConcTextResolves(i, data) ==
  /\ inflight[i].h.pc = "reading"
  /\ inflight' = Reported(inflight, i, data)
  /\ UNCHANGED <<lastIndex, pc, query, cleanQuery, result, posts, log, tool, util>>

\* response.text() of invocation i rejects
ConcTextRejects(i) ==
  /\ inflight[i].h.pc = "reading"
  /\ inflight' = Moved(inflight, i, Caught(inflight[i].h, "body unusable"))
  /\ UNCHANGED <<lastIndex, pc, query, cleanQuery, result, posts, log, tool, util>>

\* invocation i is over
ConcFinish(i) ==
  /\ inflight[i].h.pc = "returned"
  /\ inflight' = Without(inflight, i)
  /\ UNCHANGED <<lastIndex, pc, query, cleanQuery, result, posts, log, tool, util>>

NextConcurrent ==
  \/ \E c \in ConcurrentCalls : ConcInvoke(c)
  \/ \E i \in 1..Len(inflight), st \in Statuses : ConcFetchResolves(i, st)
  \/ \E i \in 1..Len(inflight) : ConcFetchRejects(i)
  \/ \E i \in 1..Len(inflight), data \in Bodies : ConcTextResolves(i, data)
  \/ \E i \in 1..Len(inflight) : ConcTextRejects(i)
  \/ \E i \in 1..Len(inflight) : ConcFinish(i)

SpecConcurrent == Init /\ [][NextConcurrent]_vars

----------------------------------------------------------------------------
(* Properties *)

\* the handler has run its synchronous part
SyncDone == pc # "idle"

\* validateAndCleanSqlQuery returned in this invocation
Validated == SyncDone /\ result.kind # KindInputValidation

\* the content blocks returned before any request is made
PreFetchKinds == {KindInputValidation, KindSecurity, KindQueryValidation, KindTableReference}

\* the text holds a block comment: "/*", later "*/"
HasBlockComment(s) == \E i \in 1..Len(s) : BlockCommentAt(s, i)

\* C1: a POST is issued only after validateAndCleanSqlQuery has returned and
\* every later check (DDL/DML keyword, system schema, file operation, table
\* whitelist, JOIN restriction, LIMIT/aggregation, authorized-table presence)
\* has passed on the cleaned text, which is the text posted; an invocation that
\* returns a validation, security or table-reference error has issued no POST.
C1_PostOnlyAfterChecks ==
  /\ posts # <<>> =>
       /\ Len(posts) = 1
       /\ posts[1].query = cleanQuery
       /\ cleanQuery = Trim(query)
       /\ Len(cleanQuery) <= MAX_QUERY_LENGTH
       /\ ~TerminatorKeywordTest(cleanQuery)
       /\ ~LineCommentTest(cleanQuery)
       /\ ~XpCmdshellTest(cleanQuery)
       /\ ~SpExecutesqlTest(cleanQuery)
       /\ ~HasWholeWordI(cleanQuery, DdlDmlWords)
       /\ ~HasWholeWordI(cleanQuery, SystemSchemaWords)
       /\ ~HasWholeWordI(cleanQuery, FileOperationWords)
       /\ unauthorizedTables(tableReferences(cleanQuery)) = <<>>
       /\ ~(hasJoin(cleanQuery) /\ Len(tableReferences(cleanQuery)) > 1)
       /\ hasLimit(cleanQuery) \/ hasCount(cleanQuery) \/ hasAggregation(cleanQuery)
       /\ hasValidTable(cleanQuery)
  /\ result.kind \in PreFetchKinds => posts = <<>>

\* C1 witness: an invocation that posted its query and returned the results
C1_Witness == pc = "returned" /\ posts # <<>> /\ result.kind = KindResults

\* C2: in any sequence of calls, every call whose trimmed text is within the
\* length limit and holds a block comment fails with the dangerous-pattern error.
C2_BlockCommentRejected ==
  \A k \in 1..Len(log) :
    (HasBlockComment(Trim(log[k].text)) /\ Len(Trim(log[k].text)) <= MAX_QUERY_LENGTH)
      => (~log[k].ok /\ log[k].error = ErrDangerous)

\* C3: two calls with the same text give the same outcome, whatever was
\* validated between them.
C3_SameTextSameOutcome ==
  \A j, k \in 1..Len(log) :
    log[j].text = log[k].text =>
      /\ log[j].ok = log[k].ok
      /\ log[j].value = log[k].value
      /\ log[j].error = log[k].error

\* the two authorized identifiers, as the reference scan extracts them
AuthorizedPlain == {BLENDED_PLAIN, IMPRESSION_PLAIN}

\* the text names a table that is not one of the two authorized ones
NamesOtherTable(s) == \E r \in OtherRefs : Includes(s, r)

\* C4: no query that names a table other than the two authorized ones is
\* forwarded to the webhook.
C4_OnlyAuthorizedForwarded ==
  \A k \in 1..Len(posts) : ~NamesOtherTable(posts[k].query)

\* the extracted references that are not an authorized identifier, in order
UnauthorizedTokens(s) == SelectSeq(tableReferences(s), LAMBDA t : t \notin AuthorizedPlain)

\* C5: a query that passes validation and the keyword, system-schema and
\* file-operation checks and holds a database.schema.table-shaped token that is
\* not an authorized table is rejected with the unauthorized-table error, which
\* lists exactly those tokens in their order of appearance.
C5_UnauthorizedTokensListed ==
  (/\ Validated
   /\ FirstSecurityCheck(cleanQuery) = 0
   /\ UnauthorizedTokens(cleanQuery) # <<>>)
  => /\ result.kind = KindSecurity
     /\ result.reason = MsgUnauthorized
     /\ result.tables = UnauthorizedTokens(cleanQuery)

\* the whole word JOIN, in any letter case: not preceded and not followed by a
\* word character
WholeWordJoin(s) ==
  \E i \in 1..Len(s) :
    /\ LitAtI(s, i, <<"J","O","I","N">>)
    /\ i = 1 \/ ~IsWord(s[i - 1])
    /\ i + 4 > Len(s) \/ ~IsWord(s[i + 4])

\* C6: a query that passes the earlier checks is rejected with the JOIN error
\* exactly when it holds the whole word JOIN and more than one extracted table
\* reference.
C6_JoinRejectedExactly ==
  (/\ Validated
   /\ FirstSecurityCheck(cleanQuery) = 0
   /\ unauthorizedTables(tableReferences(cleanQuery)) = <<>>)
  => ((result.kind = KindSecurity /\ result.reason = MsgJoin)
        <=> (WholeWordJoin(cleanQuery) /\ Len(tableReferences(cleanQuery)) > 1))

\* C6 witness: the authorized table referenced twice with a JOIN between the
\* references, rejected with the JOIN error
C6_Witness ==
  /\ pc = "returned"
  /\ result.reason = MsgJoin
  /\ tableReferences(cleanQuery) = <<BLENDED_PLAIN, BLENDED_PLAIN>>

\* ";", then white space only, then one of the seven keywords in any letter case
TerminatorThenKeyword(s) ==
  \E i \in 1..Len(s) :
    /\ s[i] = ";"
    /\ \E j \in (i + 1)..Len(s) :
         /\ \A k \in (i + 1)..(j - 1) : IsSpace(s[k])
         /\ \E w \in DdlDmlWords : LitAtI(s, j, w)

\* C7: a candidate of at most 10,000 characters that holds a statement
\* terminator followed by optional white space and a DDL/DML keyword fails with
\* the dangerous-pattern error; flexible_query answers with an Input Validation
\* Error and forwards nothing.
C7_TerminatorKeywordRejected ==
  (SyncDone /\ Len(query) <= MAX_QUERY_LENGTH /\ TerminatorThenKeyword(query))
  => /\ result.kind = KindInputValidation
     /\ result.reason = ErrDangerous
     /\ posts = <<>>

\* C7 witness: such a candidate, answered with the dangerous-pattern error
C7_Witness ==
  /\ pc = "returned"
  /\ TerminatorThenKeyword(query)
  /\ result.kind = KindInputValidation
  /\ result.reason = ErrDangerous

\* the only database.schema.table-shaped reference is the blended-summary table
OnlyBlended(s) == tableReferences(s) = <<BLENDED_PLAIN>>

\* the text matches one of the five dangerous patterns
MatchesDangerousPattern(s) ==
  \/ TerminatorKeywordTest(s)
  \/ LineCommentTest(s)
  \/ HasBlockComment(s)
  \/ XpCmdshellTest(s)
  \/ SpExecutesqlTest(s)

\* the query was forwarded and no validation, security or table-reference error
\* was returned
Forwarded(s) ==
  /\ result.kind \notin PreFetchKinds
  /\ posts = <<[query |-> s, validation_passed |-> TRUE]>>

\* C8 as stated: every candidate whose only table reference is the
\* blended-summary table and that holds a LIMIT clause is forwarded.
C8_Original ==
  (SyncDone /\ OnlyBlended(Trim(query)) /\ hasLimit(Trim(query)))
  => Forwarded(Trim(query))

\* C8 amended: such a candidate is forwarded when its trimmed text is at most
\* 10,000 characters long, matches none of the dangerous patterns and holds no
\* DDL/DML, system-schema or file-operation word.
C8_Amended ==
  (/\ SyncDone
   /\ OnlyBlended(Trim(query))
   /\ hasLimit(Trim(query))
   /\ Len(Trim(query)) <= MAX_QUERY_LENGTH
   /\ ~MatchesDangerousPattern(Trim(query))
   /\ FirstSecurityCheck(Trim(query)) = 0)
  => Forwarded(Trim(query))

\* C8 witness: such a candidate, forwarded, with its results returned
C8_Witness ==
  /\ pc = "returned"
  /\ result.kind = KindResults
  /\ OnlyBlended(cleanQuery)
  /\ hasLimit(cleanQuery)
  /\ posts # <<>>

\* the reasons of the nine checks, in the order of the pipeline
CheckReasons ==
  <<ErrTooLong, ErrDangerous, MsgDdlDml, MsgSystemSchema, MsgFileOperation, MsgUnauthorized,
    MsgJoin, MsgLimit, MsgTableReference>>

\* the text fails the k-th check of the pipeline
FailsCheck(s, k) ==
  CASE k = 1 -> Len(s) > MAX_QUERY_LENGTH
    [] k = 2 -> MatchesDangerousPattern(s)
    [] k = 3 -> HasWholeWordI(s, DdlDmlWords)
    [] k = 4 -> HasWholeWordI(s, SystemSchemaWords)
    [] k = 5 -> HasWholeWordI(s, FileOperationWords)
    [] k = 6 -> unauthorizedTables(tableReferences(s)) # <<>>
    [] k = 7 -> hasJoin(s) /\ Len(tableReferences(s)) > 1
    [] k = 8 -> ~hasLimit(s) /\ ~hasCount(s) /\ ~hasAggregation(s)
    [] k = 9 -> ~hasValidTable(s)

FailedChecks(s) == {k \in 1..Len(CheckReasons) : FailsCheck(s, k)}

\* C9: the checks are applied in one fixed order; for a query that fails
\* several of them the response carries the reason of the first one it fails,
\* and the reasons of the checks differ from one another.
C9_FirstFailureReported ==
  /\ \A j, k \in 1..Len(CheckReasons) : j # k => CheckReasons[j] # CheckReasons[k]
  /\ SyncDone =>
       LET failed == FailedChecks(Trim(query))
       IN Cardinality(failed) >= 2 =>
            result.reason = CheckReasons[CHOOSE k \in failed : \A j \in failed : k <= j]

\* c is q without its leading and trailing white space, no other character changed
IsTrimOf(c, q) ==
  /\ c # <<>> => ~IsSpace(c[1]) /\ ~IsSpace(c[Len(c)])
  /\ \E a \in 0..(Len(q) - Len(c)) :
       /\ \A k \in 1..a : IsSpace(q[k])
       /\ \A k \in 1..Len(c) : q[a + k] = c[k]
       /\ \A k \in (a + Len(c) + 1)..Len(q) : IsSpace(q[k])

\* C10: for a text free of dangerous patterns, validation succeeds exactly when
\* the trimmed text is at most 10,000 characters long; a longer one fails with
\* the too-long error, and on success the trimmed text is returned unchanged.
C10_LengthLimit ==
  (SyncDone /\ ~MatchesDangerousPattern(Trim(query)))
  => /\ IsTrimOf(Trim(query), query)
     /\ Validated <=> Len(Trim(query)) <= MAX_QUERY_LENGTH
     /\ ~Validated => result.kind = KindInputValidation /\ result.reason = ErrTooLong
     /\ Validated => cleanQuery = Trim(query)

\* C10 witness: a text of exactly 10,000 characters between white space,
\* accepted and returned without the white space
C10_Witness ==
  /\ Validated
  /\ Len(cleanQuery) = MAX_QUERY_LENGTH
  /\ Len(query) > MAX_QUERY_LENGTH
  /\ IsTrimOf(cleanQuery, query)

----------------------------------------------------------------------------
(* Properties of the sql-utils functions (SpecUtils) *)

\* the number of white-space characters s starts with
LeadingSpaces(s) ==
  CHOOSE a \in 0..Len(s) :
    /\ \A k \in 1..a : IsSpace(s[k])
    /\ a < Len(s) => ~IsSpace(s[a + 1])

\* the position of the last character of s that is not white space, or 0
LastNonSpace(s) ==
  CHOOSE b \in 0..Len(s) :
    /\ \A k \in (b + 1)..Len(s) : IsSpace(s[k])
    /\ b > 0 => ~IsSpace(s[b])

\* c is the first 200 characters of s without its surrounding white space
IsCleanStringOf(c, s) ==
  /\ Len(c) = Min(200, Max(0, LastNonSpace(s) - LeadingSpaces(s)))
  /\ \A k \in 1..Len(c) : c[k] = s[LeadingSpaces(s) + k]

\* out is the cleaned form of the value in
RECURSIVE IsCleanOf(_, _)
IsCleanOf(out, in) ==
  IF in.t = "string"
  THEN out.t = "string" /\ IsCleanStringOf(out.s, in.s)
  ELSE IF in.t = "array"
       THEN /\ out.t = "array"
            /\ Len(out.a) = Min(Len(in.a), 20)
            /\ \A i \in 1..Len(out.a) : IsCleanOf(out.a[i], in.a[i])
       ELSE out = in

\* C13: validateAndCleanInput returns, for a string, the string trimmed and then
\* cut to its first 200 characters; for a list, the cleaned forms of its first
\* min(n, 20) elements in order; and any other value unchanged.
C13_CleanedAsSpecified ==
  util.fn = "validateAndCleanInput" => IsCleanOf(util.out, util.args[1])

\* C13 witness: a list of 25 country codes comes back as its first 20
C13_Witness ==
  /\ util.fn = "validateAndCleanInput"
  /\ util.args[1].t = "array"
  /\ Len(util.args[1].a) = 25
  /\ util.out = CountryCodes(20)

\* C13 witness of the string case: white space, then more than 200 characters
C13_WitnessString ==
  /\ util.fn = "validateAndCleanInput"
  /\ util.args[1].t = "string"
  /\ Len(util.args[1].s) > 200
  /\ IsSpace(util.args[1].s[1])
  /\ util.out = JsString(Repeat("a", 200))

\* the characters escapeLikeValue is to escape
IsLikeSpecial(c) == c \in {"\\", "'", "%", "_"}

\* where the k-th character of s lands once every special character before it
\* has gained a backslash
EscapedPos(s, k) == k + Cardinality({j \in 1..(k - 1) : IsLikeSpecial(s[j])})

\* out is s with a backslash put before each special character, nothing else changed
IsEscapedOf(out, s) ==
  /\ Len(out) = Len(s) + Cardinality({j \in 1..Len(s) : IsLikeSpecial(s[j])})
  /\ \A k \in 1..Len(s) :
       IF IsLikeSpecial(s[k])
       THEN out[EscapedPos(s, k)] = "\\" /\ out[EscapedPos(s, k) + 1] = s[k]
       ELSE out[EscapedPos(s, k)] = s[k]

\* reading an escaped text back: a backslash stands for the character after it
RECURSIVE Unescape(_)
Unescape(t) ==
  IF Len(t) = 0 THEN <<>>
  ELSE IF t[1] = "\\" /\ Len(t) >= 2
       THEN <<t[2]>> \o Unescape(SubSeq(t, 3, Len(t)))
       ELSE <<t[1]>> \o Unescape(Tail(t))

\* C18: escapeLikeValue(s) is s with each backslash, single quote, % and _
\* prefixed by one backslash and nothing else changed; reading the escapes back
\* gives s again, and no other input has the same output.
C18_EscapeLikeValue ==
  util.fn = "escapeLikeValue"
  => /\ IsEscapedOf(util.out, util.args[1])
     /\ Unescape(util.out) = util.args[1]
     /\ \A other \in EscapeTexts :
          escapeLikeValue(other) = util.out => other = util.args[1]

\* C18 witness: a backslash followed by a quote becomes two backslashes,
\* a backslash and the quote
C18_Witness ==
  /\ util.fn = "escapeLikeValue"
  /\ util.args[1] = <<"\\", "'">>
  /\ util.out = <<"\\", "\\", "\\", "'">>

\* the day CURRENT_DATE() returns, as a day number, and the dates compared with it
Today == 100
Dates == (Today - MaxDays - 2)..(Today + 2)

AndText == <<" ","A","N","D"," ">>
DateText == <<"d","a","t","e"," ">>
IntervalText == <<"I","N","T","E","R","V","A","L"," ">>

\* the conjuncts of a filter: the texts between its ANDs
RECURSIVE Conjuncts(_)
Conjuncts(t) ==
  IF \E i \in 1..Len(t) : LitAt(t, i, AndText)
  THEN <<SubSeq(t, 1, FirstIdx(1, Len(t), LAMBDA i : LitAt(t, i, AndText)) - 1)>>
       \o Conjuncts(SubSeq(t, FirstIdx(1, Len(t), LAMBDA i : LitAt(t, i, AndText)) + Len(AndText),
                           Len(t)))
  ELSE <<t>>

\* the number a text of digits denotes
RECURSIVE TextToNat(_)
TextToNat(t) ==
  IF Len(t) = 0 THEN 0
  ELSE 10 * TextToNat(SubSeq(t, 1, Len(t) - 1))
       + (CHOOSE v \in 0..9 : DigitChars[v + 1] = t[Len(t)])

\* the parts of one comparison "<ref> <op> DATE_SUB(CURRENT_DATE(), INTERVAL <n> DAY)":
\* the column reference, the operator and the number of days
RefEnd(c) == FirstIdx(1, Len(c), LAMBDA i : LitAt(c, i, DateText)) + 3
OpEnd(c) == FirstIdx(RefEnd(c) + 2, Len(c), LAMBDA i : c[i] = " ") - 1
DaysStart(c) == FirstIdx(1, Len(c), LAMBDA i : LitAt(c, i, IntervalText)) + Len(IntervalText)
DateRef(c) == SubSeq(c, 1, RefEnd(c))
DateOp(c) == SubSeq(c, RefEnd(c) + 2, OpEnd(c))
DateDays(c) == TextToNat(SubSeq(c, DaysStart(c), RunEnd(c, DaysStart(c), IsDigit) - 1))

\* the date d satisfies the comparison c
HoldsComparison(c, d) ==
  CASE DateOp(c) = <<">","=">> -> d >= Today - DateDays(c)
    [] DateOp(c) = <<"<">> -> d < Today - DateDays(c)
    [] DateOp(c) = <<"<","=">> -> d <= Today - DateDays(c)
    [] DateOp(c) = <<">">> -> d > Today - DateDays(c)

\* the date d satisfies every conjunct of the filter
Satisfies(filter, d) ==
  \A k \in 1..Len(Conjuncts(filter)) : HoldsComparison(Conjuncts(filter)[k], d)

\* C20: for 0 < currentDays <= totalDays no date satisfies both the current-period
\* filter and the comparison-period filter, a date satisfies one of them exactly
\* when it is not before today - totalDays, and with an alias both date references
\* of the comparison filter carry the alias.
C20_PeriodsPartition ==
  util.fn = "buildDateFilters"
  => /\ \A d \in Dates :
          /\ ~(Satisfies(util.out.current, d) /\ Satisfies(util.out.comparison, d))
          /\ (Satisfies(util.out.current, d) \/ Satisfies(util.out.comparison, d))
             <=> d >= Today - util.args[2]
     /\ Len(Conjuncts(util.out.comparison)) = 2
     /\ Len(util.args[3]) > 0
        => \A k \in 1..2 :
             DateRef(Conjuncts(util.out.comparison)[k])
               = util.args[3] \o <<".","d","a","t","e">>

\* C20 witness: filters for 7 of 14 days with alias bd; the day ten days ago is in
\* the comparison period only, the day three days ago in the current period only
C20_Witness ==
  /\ util.fn = "buildDateFilters"
  /\ util.args = <<7, 14, <<"b","d">>>>
  /\ Satisfies(util.out.comparison, Today - 10) /\ ~Satisfies(util.out.current, Today - 10)
  /\ Satisfies(util.out.current, Today - 3) /\ ~Satisfies(util.out.comparison, Today - 3)

\* reading SQL from position j inside a quoted literal: the position of the quote
\* that closes it, or 0 when the text ends first; a backslash takes the character
\* after it with it
RECURSIVE ClosingQuote(_, _)
ClosingQuote(t, j) ==
  IF j > Len(t) THEN 0
  ELSE IF t[j] = "\\" THEN ClosingQuote(t, j + 2)
  ELSE IF t[j] = "'" THEN j
  ELSE ClosingQuote(t, j + 1)

\* the position of the first quote of t at or after position i, or 0
NextQuote(t, i) == FirstIdx(i, Len(t), LAMBDA j : t[j] = "'")

\* the SQL text from position i on with every literal replaced by "?", and by "!"
\* a literal that is never closed
RECURSIVE Skeleton(_, _)
Skeleton(t, i) ==
  IF NextQuote(t, i) = 0 THEN SubSeq(t, i, Len(t))
  ELSE SubSeq(t, i, NextQuote(t, i) - 1)
       \o (IF ClosingQuote(t, NextQuote(t, i) + 1) = 0 THEN <<"!">>
           ELSE <<"?">> \o Skeleton(t, ClosingQuote(t, NextQuote(t, i) + 1) + 1))

\* the literal of t that opens at position q and closes at position e
LiteralAt(t, q, e) ==
  IF e = 0 THEN [closed |-> FALSE, value |-> <<>>]
  ELSE [closed |-> TRUE, value |-> Unescape(SubSeq(t, q + 1, e - 1))]

\* the literals of the SQL text from position i on, in order; a literal that is
\* never closed has no value and ends the text
RECURSIVE Literals(_, _)
Literals(t, i) ==
  IF NextQuote(t, i) = 0 THEN <<>>
  ELSE <<LiteralAt(t, NextQuote(t, i), ClosingQuote(t, NextQuote(t, i) + 1))>>
       \o (IF ClosingQuote(t, NextQuote(t, i) + 1) = 0 THEN <<>>
           ELSE Literals(t, ClosingQuote(t, NextQuote(t, i) + 1) + 1))

\* the list argument of the call is missing or empty
NoElements == util.args[1].t = "undefined" \/ Len(util.args[1].a) = 0

\* n copies of the text part, joined by sep
Repeated(part, sep, n) == Join([k \in 1..n |-> part], sep)

\* C16: every caller string in a LIKE or IN clause is escaped so that the literal
\* it is emitted in is closed only by the quote the builder appends: read as SQL,
\* the clause is the builder's own text around one closed literal per string.
C16_LiteralsClosedByBuilder ==
  /\ (util.fn = "createInClause" /\ ~NoElements)
     => Skeleton(util.out, 1)
          = util.args[2] \o <<" ","I","N"," ","(">>
            \o Repeated(<<"?">>, <<",", " ">>, Len(util.args[1].a)) \o <<")">>
  /\ (util.fn = "createCampaignMatchConditions" /\ ~NoElements)
     => Skeleton(util.out, 1)
          = <<"(">>
            \o Repeated(<<"L","O","W","E","R","(","c","a","m","p","a","i","g","n",")"," ",
                          "L","I","K","E"," ","L","O","W","E","R","(","?",")">>,
                        <<" ","O","R"," ">>, Len(util.args[1].a))
            \o <<")">>

\* C19: for an empty or missing list createInClause and
\* createCampaignMatchConditions return exactly 1=0; for a non-empty list
\* createInClause returns "<column> IN (...)" holding exactly one quoted literal
\* per element, in the order of the elements.
C19_InClauseShape ==
  /\ (util.fn \in {"createInClause", "createCampaignMatchConditions"} /\ NoElements)
     => util.out = <<"1","=","0">>
  /\ (util.fn = "createInClause" /\ ~NoElements)
     => /\ LitAt(util.out, 1, util.args[2] \o <<" ","I","N"," ","(">>)
        /\ util.out[Len(util.out)] = ")"
        /\ Len(Literals(util.out, 1)) = Len(util.args[1].a)
        /\ \A k \in 1..Len(util.args[1].a) :
             /\ Literals(util.out, 1)[k].closed
             /\ Literals(util.out, 1)[k].value = util.args[1].a[k].s

----------------------------------------------------------------------------
(* Properties of the tool handlers (SpecTools) *)

\* the positions a handler can be at; a handler whose promise rejected would be
\* at "rejected"
HandlerPositions == {"idle", "fetching", "reading", "returned"}

\* C11: whatever the outcome of an invocation (validation failure, non-2xx
\* status, rejected fetch, failure while reading the body), the handler of every
\* tool returns a content block of type text, and its promise never rejects.
C11_AlwaysTextContent ==
  /\ pc \in HandlerPositions
  /\ tool.pc \in HandlerPositions
  /\ pc = "returned"
     => result.kind \in {KindInputValidation, KindSecurity, KindQueryValidation,
                         KindTableReference, KindHttpFailure, KindResults, KindException}
  /\ tool.pc = "returned"
     => /\ tool.result.type = "text"
        /\ tool.result.kind \in {"report", "http failure", "caught"}

\* C11 witness: anomaly_detection has returned the text of a caught error after
\* its request was sent
C11_Witness ==
  /\ tool.name = AnomalyDetection
  /\ tool.pc = "returned"
  /\ tool.result = ToolContent("caught", "fetch failed")
  /\ Len(tool.posts) = 1

\* one step of an invocation, as far as its requests go: never more than one, and
\* none added once the handler has started waiting or has returned
OneRequest(before, after, posBefore, posAfter) ==
  /\ Len(after) <= 1
  /\ posBefore # "idle" => (after = before \/ (posAfter = "idle" /\ after = <<>>))

\* C12: an invocation issues at most one POST; after a non-2xx status or a
\* network error the handler returns without a second request, and no request
\* is made once it has returned.
C12_AtMostOnePost ==
  [][/\ OneRequest(posts, posts', pc, pc')
     /\ OneRequest(tool.posts, tool.posts', tool.pc, tool.pc')]_vars

\* C12 witness: a report tool has returned the error text for a non-2xx status
\* with one request made
C12_Witness ==
  /\ tool.pc = "returned"
  /\ tool.result.kind = "http failure"
  /\ Len(tool.posts) = 1

\* the number a text of digits with an optional minus sign denotes
TextToInt(t) == IF Len(t) > 0 /\ t[1] = "-" THEN 0 - TextToNat(Tail(t)) ELSE TextToNat(t)

\* the places of the posted query filled from the parameters in params
SlotsOf(params) ==
  {k \in 1..Len(tool.posts[1].query) : tool.posts[1].query[k].param \in params}

\* C14: every numeric threshold of a caller (min_impact_threshold, min_spend,
\* min_spend_threshold) is clamped into a fixed range before it is interpolated:
\* the number in the posted query lies in that range.
C14_ThresholdsClamped ==
  tool.pc # "idle"
  => \A k \in SlotsOf({"min_impact_threshold", "min_spend", "min_spend_threshold"}) :
       TextToInt(tool.posts[1].query[k].text) \in 100..50000

\* max(100, min(x, 50000)), case by case
ClampedImpact(x) == IF x < 100 THEN 100 ELSE IF x > 50000 THEN 50000 ELSE x

\* C15: anomaly_detection interpolates max(100, min(min_impact_threshold, 50000)),
\* the same value in the campaign filter, the regional filter and the summary.
C15_ImpactClamped ==
  (tool.name = AnomalyDetection /\ tool.pc # "idle")
  => /\ {tool.posts[1].query[k].line : k \in SlotsOf({"min_impact_threshold"})}
          = {199, 258, 280}
     /\ \A k \in SlotsOf({"min_impact_threshold"}) :
          TextToInt(tool.posts[1].query[k].text)
            = ClampedImpact(tool.args.min_impact_threshold.n)

\* C15 witness: 99999 is posted as 50000 in the three places
C15_Witness ==
  /\ tool.name = AnomalyDetection
  /\ tool.pc = "fetching"
  /\ tool.args.min_impact_threshold.n = 99999
  /\ \A k \in SlotsOf({"min_impact_threshold"}) :
       tool.posts[1].query[k].text = <<"5","0","0","0","0">>
  /\ Cardinality(SlotsOf({"min_impact_threshold"})) = 3

\* C17: every list or string parameter (platforms, countries, campaign_names,
\* regions) goes through validateAndCleanInput before any part of it is placed
\* into the SQL text: what is interpolated is the cleaned parameter, never the
\* raw one.
C17_ListsCleanedFirst ==
  tool.pc # "idle"
  => \A k \in SlotsOf({"platforms", "countries", "campaign_names", "regions"}) :
       IsCleanOf(tool.posts[1].query[k].value, tool.args[tool.posts[1].query[k].param])

----------------------------------------------------------------------------
(* Cleaning twice (SpecUtils) *)

\* x is a string or a list of strings
StringOrStrings(x) ==
  \/ x.t = "string"
  \/ x.t = "array" /\ \A i \in 1..Len(x.a) : x.a[i].t = "string"

\* the strings of a string or of a list of strings
StringsOf(x) ==
  IF x.t = "string" THEN {x.s} ELSE {x.a[i].s : i \in 1..Len(x.a)}

\* s neither starts nor ends with white space
NoSurroundingSpace(s) == Len(s) > 0 => ~IsSpace(s[1]) /\ ~IsSpace(s[Len(s)])

\* C30: validateAndCleanInput is idempotent on every string and every list of
\* strings: cleaning the cleaned value returns it unchanged, and every cleaned
\* string has no leading or trailing white space and at most 200 characters.
C30_CleanIdempotent ==
  (util.fn = "validateAndCleanInput" /\ StringOrStrings(util.args[1])) =>
    /\ validateAndCleanInput(util.out) = util.out
    /\ \A s \in StringsOf(util.out) : NoSurroundingSpace(s) /\ Len(s) <= 200

----------------------------------------------------------------------------
(* The LIKE patterns of campaign_analysis (SpecTools) *)

\* the texts between the quotes of the literals of the SQL text from position i
\* on, in order, as written (escapes included)
RECURSIVE LiteralTexts(_, _)
LiteralTexts(t, i) ==
  IF NextQuote(t, i) = 0 \/ ClosingQuote(t, NextQuote(t, i) + 1) = 0 THEN <<>>
  ELSE <<SubSeq(t, NextQuote(t, i) + 1, ClosingQuote(t, NextQuote(t, i) + 1) - 1)>>
       \o LiteralTexts(t, ClosingQuote(t, NextQuote(t, i) + 1) + 1)

\* the LIKE patterns of the campaign match condition the running tool posted
PostedPatterns ==
  UNION {{LiteralTexts(tool.posts[1].query[k].text, 1)[i] :
            i \in 1..Len(LiteralTexts(tool.posts[1].query[k].text, 1))} :
         k \in {j \in SlotsOf({"campaign_names"}) : tool.posts[1].query[j].line = 66}}

\* C28: for every non-empty campaign_names list given to campaign_analysis, every
\* LIKE pattern of the match condition has at least one character between its
\* leading and its trailing % wildcard, so that no name of the list matches
\* every campaign.
C28_PatternsNotEmpty ==
  (tool.name = CampaignAnalysis /\ tool.pc # "idle"
     /\ Len(tool.args.campaign_names.a) > 0)
  => \A pat \in PostedPatterns :
       pat[1] = "%" /\ pat[Len(pat)] = "%" /\ Len(pat) >= 3

----------------------------------------------------------------------------
(* The performance tiers (SpecUtils) *)

WhenText == <<"W","H","E","N"," ">>
ThenText == <<" ","T","H","E","N"," ">>
ElseText == <<"E","L","S","E"," ">>

\* the position of the last blank of c, or 0
LastBlank(c) ==
  IF \E i \in 1..Len(c) : c[i] = " "
  THEN CHOOSE i \in 1..Len(c) : c[i] = " " /\ \A j \in (i + 1)..Len(c) : c[j] # " "
  ELSE 0

\* the condition "<column> <op> <number>" taken apart
CondNumber(c) == TextToNat(SubSeq(c, LastBlank(c) + 1, Len(c)))
CondOp(c) ==
  SubSeq(c, LastBlank(SubSeq(c, 1, LastBlank(c) - 1)) + 1, LastBlank(c) - 1)
CondColumn(c) == SubSeq(c, 1, LastBlank(SubSeq(c, 1, LastBlank(c) - 1)) - 1)

\* the WHEN branches of the CASE text t from position i on, in order: the
\* condition between WHEN and THEN, and the literal after THEN
RECURSIVE CaseBranches(_, _)
CaseBranches(t, i) ==
  IF FirstIdx(i, Len(t), LAMBDA j : LitAt(t, j, WhenText)) = 0 THEN <<>>
  ELSE <<[cond |-> SubSeq(t, FirstIdx(i, Len(t), LAMBDA j : LitAt(t, j, WhenText)) + Len(WhenText),
                          FirstIdx(i, Len(t), LAMBDA j : LitAt(t, j, ThenText)) - 1),
          label |-> LiteralTexts(t, FirstIdx(i, Len(t), LAMBDA j : LitAt(t, j, ThenText)))[1]]>>
       \o CaseBranches(t, ClosingQuote(t, NextQuote(t, i) + 1) + 1)

\* the literal after ELSE
CaseElse(t) == LiteralTexts(t, FirstIdx(1, Len(t), LAMBDA j : LitAt(t, j, ElseText)))[1]

\* CPA values are held in cents; a condition compares with a number of dollars
CondHolds(c, v) ==
  IF CondOp(c) = <<"<","=">> THEN v <= 100 * CondNumber(c)
  ELSE IF CondOp(c) = <<"<">> THEN v < 100 * CondNumber(c)
  ELSE FALSE

\* the value of the CASE text for a CPA of v cents: the label of the first
\* branch whose condition holds, the ELSE label when none does
CaseValue(t, v) ==
  IF \E k \in 1..Len(CaseBranches(t, 1)) : CondHolds(CaseBranches(t, 1)[k].cond, v)
  THEN CaseBranches(t, 1)[CHOOSE k \in 1..Len(CaseBranches(t, 1)) :
                            /\ CondHolds(CaseBranches(t, 1)[k].cond, v)
                            /\ \A j \in 1..(k - 1) : ~CondHolds(CaseBranches(t, 1)[j].cond, v)].label
  ELSE CaseElse(t)

\* CPA values in cents, around each breakpoint
CpaValues ==
  {0 - 100, 0, 1, 2499, 2500, 2501, 3999, 4000, 4001, 5999, 6000, 6001, 100000}

\* C21: the CASE built by getPerformanceRatingCase maps every CPA value v to one
\* tier with breakpoints 25, 40 and 60: v <= 25 gives EXCELLENT, 25 < v <= 40
\* GOOD, 40 < v <= 60 ACCEPTABLE and v > 60 NEEDS_ATTENTION; every branch tests
\* the column passed; and the classification written out in creative_analysis
\* assigns the same tier to every v.
C21_TiersPartition ==
  util.fn = "getPerformanceRatingCase"
  => /\ \A k \in 1..Len(CaseBranches(util.out, 1)) :
          CondColumn(CaseBranches(util.out, 1)[k].cond) = util.args[1]
     /\ \A v \in CpaValues :
          /\ v <= 2500 => CaseValue(util.out, v) = <<"E","X","C","E","L","L","E","N","T">>
          /\ (2500 < v /\ v <= 4000) => CaseValue(util.out, v) = <<"G","O","O","D">>
          /\ (4000 < v /\ v <= 6000)
               => CaseValue(util.out, v) = <<"A","C","C","E","P","T","A","B","L","E">>
          /\ v > 6000
               => CaseValue(util.out, v)
                    = <<"N","E","E","D","S","_","A","T","T","E","N","T","I","O","N">>
          /\ CaseValue(performance_tier, v) = CaseValue(util.out, v)

\* C21 witness: the CASE for cp.cpa_current puts 25.00 and 25.01 in different tiers
C21_Witness ==
  /\ util.fn = "getPerformanceRatingCase"
  /\ util.args[1] = <<"c","p",".","c","p","a","_","c","u","r","r","e","n","t">>
  /\ Len(CaseBranches(util.out, 1)) = 3
  /\ CaseValue(util.out, 2500) = <<"E","X","C","E","L","L","E","N","T">>
  /\ CaseValue(util.out, 2501) = <<"G","O","O","D">>
  /\ CaseValue(performance_tier, 6001) = CaseValue(util.out, 6001)

----------------------------------------------------------------------------
(* Properties of the anomaly_detection query (SpecAnomaly) *)

\* a row of campaign_anomalies has been computed
CampaignRowKept == util.fn = "campaign_anomalies" /\ util.out.kept

\* the tier of the invocation
Tier == SENSITIVITY_LEVELS[util.args[1]]

\* both volume conditions of a bracket hold for the joined row cp
BracketHolds(cp, spend, conversions) ==
  cp.spend_current >= spend /\ cp.conversions_current >= conversions

\* C23: with the tier's min_spend s and min_conversions c every campaign row gets
\* exactly one confidence level: HIGH when spend >= 4s and conversions >= 3c,
\* otherwise MEDIUM when spend >= 2s and conversions >= 2c, otherwise LOW when
\* spend >= s and conversions >= c, otherwise INSUFFICIENT.
C23_ConfidenceBrackets ==
  CampaignRowKept
  => /\ util.out.row.confidence_level \in {"HIGH", "MEDIUM", "LOW", "INSUFFICIENT"}
     /\ util.out.row.confidence_level = "HIGH"
          <=> BracketHolds(util.args[3], 4 * Tier.min_spend, 3 * Tier.min_conversions)
     /\ util.out.row.confidence_level = "MEDIUM"
          <=> /\ ~BracketHolds(util.args[3], 4 * Tier.min_spend, 3 * Tier.min_conversions)
              /\ BracketHolds(util.args[3], 2 * Tier.min_spend, 2 * Tier.min_conversions)
     /\ util.out.row.confidence_level = "LOW"
          <=> /\ ~BracketHolds(util.args[3], 4 * Tier.min_spend, 3 * Tier.min_conversions)
              /\ ~BracketHolds(util.args[3], 2 * Tier.min_spend, 2 * Tier.min_conversions)
              /\ BracketHolds(util.args[3], Tier.min_spend, Tier.min_conversions)
     /\ util.out.row.confidence_level = "INSUFFICIENT"
          <=> ~BracketHolds(util.args[3], Tier.min_spend, Tier.min_conversions)

\* C23 witness: at medium, spend 4000 (8s) with 9 conversions (under 2c) is LOW
C23_Witness ==
  /\ CampaignRowKept
  /\ util.args[1] = "medium"
  /\ util.args[3].spend_current = 4000
  /\ util.args[3].conversions_current = 9
  /\ util.out.row.confidence_level = "LOW"

\* the size of the change from comp to cur is at least percent / 100, a change
\* whose comparison value is missing or not positive counting as 0
ChangeAtLeast(cur, comp, percent) ==
  IF comp.null \/ comp.v <= 0 \/ cur.null THEN FALSE
  ELSE \/ 100 * (cur.v - comp.v) >= percent * comp.v
       \/ 100 * (comp.v - cur.v) >= percent * comp.v

\* the five signals of the claim for the joined row cp at threshold percent
CpaSignal(cp, percent) == ChangeAtLeast(cp.cpa_current, cp.cpa_comparison, percent)
CtrSignal(cp, percent) == ChangeAtLeast(cp.ctr_current, cp.ctr_comparison, percent)
CvrSignal(cp, percent) == ChangeAtLeast(cp.cvr_current, cp.cvr_comparison, percent)
SpendSignal(cp, percent) ==
  ChangeAtLeast(Value(cp.spend_current), cp.spend_comparison, 2 * percent)
CostSignal == util.out.row.excess_cost >= 500

\* C22: with tier threshold T a campaign row enters
\* significant_campaign_anomalies exactly when its confidence level is not
\* INSUFFICIENT and |cpa change| >= T, |ctr change| >= T, |cvr change| >= T,
\* |spend change| >= 2T or excess_cost >= 500; a change whose comparison value
\* is missing or not positive counts as 0.
C22_InclusionCondition ==
  CampaignRowKept
  => (util.out.significant
        <=> /\ util.out.row.confidence_level # "INSUFFICIENT"
            /\ \/ CpaSignal(util.args[3], Tier.change_threshold)
               \/ CtrSignal(util.args[3], Tier.change_threshold)
               \/ CvrSignal(util.args[3], Tier.change_threshold)
               \/ SpendSignal(util.args[3], Tier.change_threshold)
               \/ CostSignal)

\* C22 witness: a row that enters on its spend change alone (+100%)
C22_Witness ==
  /\ CampaignRowKept
  /\ util.out.significant
  /\ util.args[3].spend_current = 2000
  /\ util.args[3].spend_comparison = Value(1000)
  /\ ~CpaSignal(util.args[3], Tier.change_threshold)
  /\ ~CtrSignal(util.args[3], Tier.change_threshold)
  /\ ~CvrSignal(util.args[3], Tier.change_threshold)
  /\ ~CostSignal

\* C22 witness: a comparison CPA of 0 counts as no change, and the row stays out
C22_WitnessZero ==
  /\ CampaignRowKept
  /\ ~util.out.significant
  /\ util.out.row.confidence_level = "HIGH"
  /\ util.args[3].cpa_comparison = Value(0)

\* C27: every row of CAMPAIGN_ANOMALIES has anomaly_type CPA_SHIFT, CTR_SHIFT,
\* CVR_SHIFT, SPEND_SHIFT or COST_OVERRUN, never MULTIPLE_SIGNALS, and a row
\* meeting several conditions is labelled by the first in the order CPA, CTR,
\* CVR, spend, excess cost.
C27_AnomalyTypeLabel ==
  (CampaignRowKept /\ util.out.significant)
  => /\ util.out.anomaly_type
          \in {"CPA_SHIFT", "CTR_SHIFT", "CVR_SHIFT", "SPEND_SHIFT", "COST_OVERRUN"}
     /\ util.out.anomaly_type = "CPA_SHIFT" <=> CpaSignal(util.args[3], Tier.change_threshold)
     /\ util.out.anomaly_type = "CTR_SHIFT"
          <=> /\ ~CpaSignal(util.args[3], Tier.change_threshold)
              /\ CtrSignal(util.args[3], Tier.change_threshold)
     /\ util.out.anomaly_type = "CVR_SHIFT"
          <=> /\ ~CpaSignal(util.args[3], Tier.change_threshold)
              /\ ~CtrSignal(util.args[3], Tier.change_threshold)
              /\ CvrSignal(util.args[3], Tier.change_threshold)
     /\ util.out.anomaly_type = "SPEND_SHIFT"
          <=> /\ ~CpaSignal(util.args[3], Tier.change_threshold)
              /\ ~CtrSignal(util.args[3], Tier.change_threshold)
              /\ ~CvrSignal(util.args[3], Tier.change_threshold)
              /\ SpendSignal(util.args[3], Tier.change_threshold)

\* C27 witness: a row with a CTR change, a spend change and an excess cost, but
\* no CPA change, is labelled CTR_SHIFT
C27_Witness ==
  /\ CampaignRowKept
  /\ util.out.significant
  /\ util.out.anomaly_type = "CTR_SHIFT"
  /\ SpendSignal(util.args[3], Tier.change_threshold)
  /\ CostSignal

\* C27 witness: a row that enters on its excess cost alone is COST_OVERRUN
C27_WitnessCost ==
  /\ CampaignRowKept
  /\ util.out.significant
  /\ util.out.anomaly_type = "COST_OVERRUN"
  /\ util.out.row.excess_cost = 500

\* the joined row of the state satisfies the inclusion condition at sensitivity s
IncludedAt(s) ==
  Significant(SENSITIVITY_LEVELS[s], campaign_anomalies(SENSITIVITY_LEVELS[s], util.args[3]))

\* C26: sensitivity is monotone: for the same data and the same
\* min_impact_threshold, a campaign row that satisfies the inclusion condition at
\* low satisfies it at medium, and one that satisfies it at medium satisfies it
\* at high.
C26_SensitivityMonotone ==
  CampaignRowKept
  => /\ util.out.significant = IncludedAt(util.args[1])
     /\ IncludedAt("low") => IncludedAt("medium")
     /\ IncludedAt("medium") => IncludedAt("high")

\* C26 witness: a row included at low, hence at medium and high
C26_Witness ==
  /\ CampaignRowKept
  /\ util.args[1] = "low"
  /\ util.out.significant
  /\ IncludedAt("medium")
  /\ IncludedAt("high")

\* C26 witness: the tiers differ: a row included at high that medium leaves out
C26_WitnessStrict ==
  /\ CampaignRowKept
  /\ util.args[1] = "high"
  /\ util.out.significant
  /\ ~IncludedAt("medium")

----------------------------------------------------------------------------
(* Properties of the assembled queries (SpecLayout) *)

\* the positions of the layout L that hold a token of one of the kinds
Positions(L, kinds) == {i \in 1..Len(L) : L[i].k \in kinds}

\* the position of the first SELECT of the final UNION ALL
FirstSelect(L) == CHOOSE i \in Positions(L, {"SELECT"}) : \A j \in Positions(L, {"SELECT"}) : i <= j

\* position i lies inside a parenthesised subquery
InScalar(L, i) ==
  Cardinality({j \in Positions(L, {"("}) : j < i}) > Cardinality({j \in Positions(L, {")"}) : j < i})

\* the first and the last position of the stage or of the section position i lies in
ScopeStart(L, i) ==
  CHOOSE s \in Positions(L, {"STAGE", "SELECT"}) :
    s <= i /\ \A j \in Positions(L, {"STAGE", "SELECT"}) : j <= i => j <= s
ScopeEnd(L, i) ==
  CHOOSE e \in Positions(L, {"END", "UNION ALL", "ORDER BY section"}) :
    e >= i /\ \A j \in Positions(L, {"END", "UNION ALL", "ORDER BY section"}) : j >= i => e <= j

\* the LIMITs of the stage called name that apply to the rows of the stage
StageLimits(L, name) ==
  {L[i].n : i \in {j \in Positions(L, {"LIMIT"}) :
                     /\ ~InScalar(L, j)
                     /\ L[ScopeStart(L, j)].k = "STAGE"
                     /\ L[ScopeStart(L, j)].name = name}}

\* the stage a section reads its rows from: the FROM of the section itself
SectionSource(L, i) ==
  L[CHOOSE f \in Positions(L, {"FROM"}) :
      ScopeStart(L, f) = ScopeStart(L, i) /\ ~InScalar(L, f)].name

\* C24: in the query of every registered report tool each section that lists
\* rows is capped by a LIMIT in a named stage before the UNION ALL, no branch of
\* the final UNION ALL carries a LIMIT of its own, and in anomaly_detection the
\* caps are 15 campaign anomalies and 10 regional anomalies.
C24_LimitsBeforeUnion ==
  util.fn = "query"
  => /\ \A i \in Positions(util.out, {"LIMIT"}) :
          ~InScalar(util.out, i) => i < FirstSelect(util.out)
     /\ \A i \in Positions(util.out, {"ARRAY_AGG"}) :
          StageLimits(util.out, SectionSource(util.out, i)) # {}
     /\ util.args[1].name = AnomalyDetection
          => /\ StageLimits(util.out, "significant_campaign_anomalies") = {15}
             /\ StageLimits(util.out, "significant_regional_anomalies") = {10}

\* the part of C24 about anomaly_detection alone
AnomalyCapsInStages ==
  (util.fn = "query" /\ util.args[1].name = AnomalyDetection)
  => /\ \A i \in Positions(util.out, {"LIMIT"}) : i < FirstSelect(util.out)
     /\ StageLimits(util.out, "significant_campaign_anomalies") = {15}
     /\ StageLimits(util.out, "significant_regional_anomalies") = {10}
     /\ SectionSource(util.out, CHOOSE i \in Positions(util.out, {"SELECT"}) :
                                  util.out[i].name = "CAMPAIGN_ANOMALIES")
          = "significant_campaign_anomalies"

\* the stage the FROM or JOIN at position i names is defined earlier in the WITH list
DefinedBefore(L, i) ==
  \E j \in Positions(L, {"STAGE"}) : j < i /\ L[j].name = L[i].name

\* the alias of the column at position i is introduced in the same stage or section
AliasBound(L, i) ==
  \E j \in Positions(L, {"FROM", "JOIN", "TABLE"}) :
    /\ ScopeStart(L, i) <= j /\ j <= ScopeEnd(L, i)
    /\ L[j].as = L[i].as

\* C29: for every combination of the flags and the enum parameters, every stage
\* referenced in the assembled query, in a FROM, in a JOIN or through an alias, is
\* defined in the WITH list of the same query, and the WITH list is well formed:
\* stages separated by exactly one comma, no comma before the first SELECT.
C29_StagesDefined ==
  util.fn = "query"
  => /\ \A i \in Positions(util.out, {"FROM", "JOIN"}) : DefinedBefore(util.out, i)
     /\ \A i \in Positions(util.out, {"COLUMN"}) : AliasBound(util.out, i)
     /\ util.out[1].k = "WITH" /\ util.out[2].k = "STAGE"
     /\ \A i \in Positions(util.out, {"END"}) : util.out[i + 1].k \in {",", "SELECT"}
     /\ \A i \in Positions(util.out, {","}) : util.out[i + 1].k = "STAGE"
     /\ \A i \in Positions(util.out, {"STAGE"}) : util.out[i - 1].k \in {"WITH", ","}
     /\ \A i \in Positions(util.out, {"SELECT"}) :
          util.out[i - 1].k \in {"END", "UNION ALL"}

\* C29 witness: regional_comparison without trends neither defines nor names
\* previous_period, and campaign_analysis with creatives defines creative_filtered
C29_Witness ==
  /\ util.fn = "query"
  /\ util.args[1].name = RegionalComparison
  /\ ~util.args[1].flag
  /\ \A i \in 1..Len(util.out) : util.out[i].name # "previous_period" /\ util.out[i].as # "pp"
  /\ \E i \in Positions(util.out, {"FROM"}) : util.out[i].as = "cp"

\* C29 witness with the flag set: creative_filtered is defined after a comma and read
C29_WitnessCreatives ==
  /\ util.fn = "query"
  /\ util.args[1].name = CampaignAnalysis
  /\ util.args[1].flag
  /\ \E i \in Positions(util.out, {"STAGE"}) :
       util.out[i].name = "creative_filtered" /\ util.out[i - 1].k = ","
  /\ \E i \in Positions(util.out, {"FROM"}) :
       util.out[i].name = "creative_filtered" /\ i > FirstSelect(util.out)

----------------------------------------------------------------------------
(* Properties of the tools with several invocations in flight (SpecConcurrent) *)

\* invocation i has returned a report
ReportReturned(i) ==
  /\ inflight[i].h.pc = "returned"
  /\ inflight[i].h.result.kind = "report"

\* C25: an invocation depends on its own parameters and on nothing another
\* invocation wrote: whatever else is in flight, the query it POSTed is the one
\* built from its own parameters, and the report it returns is headed by its own
\* parameters.
C25_OwnParametersOnly ==
  \A i \in 1..Len(inflight) :
    /\ inflight[i].h.posts = <<[query |-> ToolQuery(inflight[i].call.name, inflight[i].call.args)]>>
    /\ ReportReturned(i) => inflight[i].header = ReportHeader(inflight[i].call)

\* two invocations of one tool with different parameters overlap: the first
\* returns its report while the second is still awaiting its response
C25_Witness ==
  /\ Len(inflight) = 2
  /\ inflight[1].call.name = inflight[2].call.name
  /\ ReportHeader(inflight[1].call) # ReportHeader(inflight[2].call)
  /\ ReportReturned(1)
  /\ inflight[2].h.pc \in {"fetching", "reading"}

====
